---- MODULE Spec2Model ----
(***************************************************************************)
(* The particle wipe generator (src/script.js): the pattern generators,    *)
(* the order wrappers that nest around them, GeneratorView.get_generator,  *)
(* the InfectPattern constructor, trace_line, and the mask generation      *)
(* generate_particle_wipe_mask with its stamp, pixel loop and encoder,     *)
(* the Generate button's handler, and WipePlayer's playback (play, pause,  *)
(* set_time, render_loop and the animation frames that run it).            *)
(*                                                                         *)
(* A generator object is a record whose fields are the object's fields     *)
(* (type is the class); a wrapper holds the generator it wraps in its      *)
(* field "wrapped".  The lazily memoized getter max_step is the field      *)
(* max_step, computed by the class's _get_max_step.                        *)
(*                                                                         *)
(* Numbers: steps of every modelled generator are integers.  droop is a    *)
(* multiple of 1/DroopDen and is carried as its numerator.  SpiralPattern  *)
(* (real-valued steps, trigonometry) is not modelled.  Coordinates, scales *)
(* and times are exact fractions (see "numbers" below).                    *)
(***************************************************************************)
EXTENDS Integers, Sequences, FiniteSets, TLC

\* ------------------------------------------------------------------ bounds
MaxRows == 2          \* grids have 1..MaxRows rows
MaxCols == 3          \* and 1..MaxCols columns
DroopDen == 2         \* droop ranges over 0/DroopDen .. DroopDen/DroopDen
MaxStride == 2        \* interlace strides 1..MaxStride
MaxWrap == 2          \* wrappers nested by direct construction
MaxRandomSlope == 1   \* family of RandomPattern draws, see RandomCellDraws
MaxOffsetSlope == 1   \* family of offset draws, see OffsetDraws
InfectRows == 3       \* the grids of the step-by-step InfectPattern
InfectCols == 11      \* construction: up to InfectRows x InfectCols,
InfectCells == 33     \* of at most InfectCells cells
TraceDen == 4         \* trace_line's endpoints: multiples of 1/TraceDen
TraceMax == 2         \* within 0 .. TraceMax
EncodeDen == 24       \* the encoder's inputs: fractions n / d, d <= EncodeDen
MaxCanvas == 2        \* the mask canvas: up to MaxCanvas x MaxCanvas pixels
MaxMaskGrid == 2      \* cut into up to MaxMaskGrid x MaxMaskGrid cells
MaxParticle == 2      \* the particle canvas: up to MaxParticle pixels a side,
MaxParticleCells == 4 \* and MaxParticleCells pixels in all
DelayDen == 2         \* delay: a multiple of 1 / DelayDen within 0 .. 1
SqrtDen == 16         \* Math.sqrt rounds down to a multiple of 1 / SqrtDen
MaxLoopCanvas == 4    \* the pixel loop by iterations: canvas width and height
MaxLoopGrid == 3      \* the pixel loop by iterations: row_ct and column_ct
TimeDen == 4          \* WipePlayer: t and time in ticks, t = 1 is TimeDen ticks
MaxElapsed == 2       \* ticks between a frame and the event before it
MaxInputs == 5        \* input events one run of the WipePlayer handles

\* ------------------------------------------------------- program constants
RandomMaxStep == 16   \* RandomPattern._get_max_step
DensityDen == 32      \* InfectPattern: density = 1/32
AlphaThreshold == 128 \* a particle pixel at or above it stops the ray
AlphaOpaque == 255    \* a fully opaque pixel
Undefined == -1       \* an array slot never assigned (JS undefined)

VARIABLES
    settings,   \* GeneratorView.settings the generator was built from
    generator,  \* the generator object most recently constructed
    infect,     \* the frame of a running InfectPattern constructor
    trace,      \* the frame of a running trace_line generator
    mask,       \* the inputs and results of generate_particle_wipe_mask
    player      \* the WipePlayer: its fields and its pending callbacks

vars == <<settings, generator, infect, trace, mask, player>>

\* ---------------------------------------------------------------- numbers
\* Math.floor(num / den) and Math.ceil(num / den) for den > 0
Floor(num, den) == num \div den
\* Math.ceil taken as Math.floor plus one
Ceil_FloorPlusOne(num, den) == Floor(num, den) + 1
Ceil(num, den) == -((-num) \div den)
\* Math.min of two numbers
Min2(a, b) == IF a < b THEN a ELSE b
\* the JS remainder a % b (b > 0): it takes the sign of the dividend
JsRem(a, b) == IF a >= 0 THEN a % b ELSE -((-a) % b)
\* the outcomes of Math.floor(Math.random() * range): Math.random() is in
\* [0, 1), so these are 0 .. range-1, and 0 alone when range is 0
RandomInt(range) == IF range <= 0 THEN {0} ELSE 0 .. (range - 1)

SetMax(S) == CHOOSE x \in S : \A y \in S : y <= x

\* ------------------------------------------------------------ geometry
\* reflect with the midpoint itself taken for the near half
reflect_MidpointNear(n, count) ==
    IF 2 * n <= count
    THEN n
    ELSE count - 1 - n

\* function reflect(n, count)
reflect(n, count) ==
    IF 2 * n < count       \* n < count / 2
    THEN n
    ELSE count - 1 - n

\* reflect_max without the half subtracted: Math.floor(count / 2)
reflect_max_NoHalf(count) == Floor(count, 2)

\* function reflect_max(count): Math.floor(count / 2 - 0.5)
reflect_max(count) == Floor(count - 1, 2)

\* ------------------------------------------------------ pattern generators
\* class PatternGenerator: constructor(row_ct, column_ct)
PatternGenerator(type, row_ct, column_ct) ==
    [type |-> type, row_ct |-> row_ct, column_ct |-> column_ct]

\* RowPattern / ColumnPattern constructors: this.range
RowPattern_range(row_ct, droop) == Ceil(droop * row_ct, DroopDen)
ColumnPattern_range(column_ct, droop) == Ceil(droop * column_ct, DroopDen)

\* the classes' _get_max_step methods
RowPattern_get_max_step(this) == this.row_ct - 1 + this.range
ColumnPattern_get_max_step(this) == this.column_ct - 1 + this.range
DiagonalPattern_get_max_step(this) == this.row_ct - 1 + this.column_ct - 1
RowCurtainPattern_get_max_step(this) ==
    this.row_ct - 1 + reflect_max(this.column_ct)
ColumnCurtainPattern_get_max_step(this) ==
    this.column_ct - 1 + reflect_max(this.row_ct)
DiagonalCurtainPattern_get_max_step(this) ==
    Min2(this.row_ct, this.column_ct) - 1
RowShutterPattern_get_max_step(this) == reflect_max(this.row_ct)
ColumnShutterPattern_get_max_step(this) == reflect_max(this.column_ct)
MainDiagonalShutterPattern_get_max_step(this) ==
    reflect_max(this.row_ct + this.column_ct)
DiamondPattern_get_max_step(this) ==
    reflect_max(this.row_ct) + reflect_max(this.column_ct)
BoxPattern_get_max_step(this) ==
    Min2(reflect_max(this.row_ct), reflect_max(this.column_ct))
RandomPattern_get_max_step(this) == RandomMaxStep

\* PatternGenerator's getter max_step: the class's _get_max_step, memoized
get_max_step(this) ==
    CASE this.type = "RowPattern" -> RowPattern_get_max_step(this)
      [] this.type = "ColumnPattern" -> ColumnPattern_get_max_step(this)
      [] this.type = "DiagonalPattern" -> DiagonalPattern_get_max_step(this)
      [] this.type = "RowCurtainPattern" -> RowCurtainPattern_get_max_step(this)
      [] this.type = "ColumnCurtainPattern" ->
            ColumnCurtainPattern_get_max_step(this)
      [] this.type = "DiagonalCurtainPattern" ->
            DiagonalCurtainPattern_get_max_step(this)
      [] this.type = "RowShutterPattern" -> RowShutterPattern_get_max_step(this)
      [] this.type = "ColumnShutterPattern" ->
            ColumnShutterPattern_get_max_step(this)
      [] this.type = "MainDiagonalShutterPattern" ->
            MainDiagonalShutterPattern_get_max_step(this)
      [] this.type = "DiamondPattern" -> DiamondPattern_get_max_step(this)
      [] this.type = "BoxPattern" -> BoxPattern_get_max_step(this)
      [] this.type = "RandomPattern" -> RandomPattern_get_max_step(this)

WithMaxStep(this) == this @@ [max_step |-> get_max_step(this)]

\* new RowPattern(row_ct, column_ct, droop); offsets are the constructor's
\* draws Math.floor(Math.random() * this.range), one per column and border
RowPattern(row_ct, column_ct, droop, offsets) ==
    WithMaxStep(PatternGenerator("RowPattern", row_ct, column_ct) @@
        [range |-> RowPattern_range(row_ct, droop), offsets |-> offsets])

ColumnPattern(row_ct, column_ct, droop, offsets) ==
    WithMaxStep(PatternGenerator("ColumnPattern", row_ct, column_ct) @@
        [range |-> ColumnPattern_range(column_ct, droop), offsets |-> offsets])

\* the classes that define no constructor of their own
PlainClasses ==
    {"DiagonalPattern", "RowCurtainPattern", "ColumnCurtainPattern",
     "DiagonalCurtainPattern", "RowShutterPattern", "ColumnShutterPattern",
     "MainDiagonalShutterPattern", "DiamondPattern", "BoxPattern"}

PlainPattern(type, row_ct, column_ct) ==
    WithMaxStep(PatternGenerator(type, row_ct, column_ct))

\* new RandomPattern(row_ct, column_ct); cells are the constructor's draws
\* Math.floor(Math.random() * range) with range = this.max_step
RandomPattern(row_ct, column_ct, cells) ==
    WithMaxStep(PatternGenerator("RandomPattern", row_ct, column_ct)) @@
        [cells |-> cells]

\* the cell(r, c) methods of the base classes
RowPattern_cell(this, r, c) == r + this.offsets[c + 1]
ColumnPattern_cell(this, r, c) == c + this.offsets[r + 1]
DiagonalPattern_cell(this, r, c) == r + c
RowCurtainPattern_cell(this, r, c) == r + reflect(c, this.column_ct)
ColumnCurtainPattern_cell(this, r, c) == c + reflect(r, this.row_ct)
DiagonalCurtainPattern_cell(this, r, c) == Min2(r, c)
RowShutterPattern_cell(this, r, c) == reflect(r, this.row_ct)
ColumnShutterPattern_cell(this, r, c) == reflect(c, this.column_ct)
MainDiagonalShutterPattern_cell(this, r, c) ==
    reflect(r + c, this.row_ct + this.column_ct)
DiamondPattern_cell(this, r, c) ==
    reflect(r, this.row_ct) + reflect(c, this.column_ct)
BoxPattern_cell(this, r, c) ==
    Min2(reflect(r, this.row_ct), reflect(c, this.column_ct))
\* RandomPattern.cell and InfectPattern.cell
Stored_cell(this, r, c) == this.cells[r + 1][c + 1]

\* ------------------------------------------------------------- wrappers
\* class PatternWrapper: constructor(pattern)
PatternWrapper(type, pattern) ==
    [type |-> type, wrapped |-> pattern, row_ct |-> pattern.row_ct,
     column_ct |-> pattern.column_ct, max_step |-> pattern.max_step]

PatternInterlaced(pattern, stride) ==
    PatternWrapper("PatternInterlaced", pattern) @@ [stride |-> stride]
PatternReversed(pattern) == PatternWrapper("PatternReversed", pattern)
PatternMirrored(pattern) == PatternWrapper("PatternMirrored", pattern)
PatternFlipped(pattern) == PatternWrapper("PatternFlipped", pattern)
\* PatternReflected reflecting max_step instead of max_step + 1
PatternReflected_NoPlusOne(pattern) ==
    [PatternWrapper("PatternReflected", pattern)
        EXCEPT !.max_step = reflect_max(pattern.max_step)]

PatternReflected(pattern) ==
    [PatternWrapper("PatternReflected", pattern)
        EXCEPT !.max_step = reflect_max(pattern.max_step + 1)]

\* PatternInterlaced.cell taking the wrapped step as counted from one
PatternInterlaced_cell_OneBased(this, step) ==
    Floor(step + 1, this.stride)
    + Floor(this.max_step, this.stride) * JsRem(step + 1, this.stride)
    + Min2(JsRem(step + 1, this.stride), JsRem(this.max_step + 1, this.stride))
\* the wrappers' cell methods; step is this.wrapped.cell(r, c)
PatternInterlaced_cell(this, step) ==
    Floor(step, this.stride)
    + Floor(this.max_step, this.stride) * JsRem(step, this.stride)
    + Min2(JsRem(step, this.stride), JsRem(this.max_step + 1, this.stride))
\* PatternReversed.cell counting down from the number of steps
PatternReversed_cell_FromCount(this, step) == this.max_step + 1 - step
PatternReversed_cell(this, step) == this.max_step - step
PatternReflected_cell(this, step) == reflect(step, this.wrapped.max_step + 1)

WrapperClasses ==
    {"PatternInterlaced", "PatternReversed", "PatternMirrored",
     "PatternFlipped", "PatternReflected"}

\* generator.cell(r, c), by the class of the object
RECURSIVE cell(_, _, _)
cell(this, r, c) ==
    CASE this.type = "RowPattern" -> RowPattern_cell(this, r, c)
      [] this.type = "ColumnPattern" -> ColumnPattern_cell(this, r, c)
      [] this.type = "DiagonalPattern" -> DiagonalPattern_cell(this, r, c)
      [] this.type = "RowCurtainPattern" -> RowCurtainPattern_cell(this, r, c)
      [] this.type = "ColumnCurtainPattern" ->
            ColumnCurtainPattern_cell(this, r, c)
      [] this.type = "DiagonalCurtainPattern" ->
            DiagonalCurtainPattern_cell(this, r, c)
      [] this.type = "RowShutterPattern" -> RowShutterPattern_cell(this, r, c)
      [] this.type = "ColumnShutterPattern" ->
            ColumnShutterPattern_cell(this, r, c)
      [] this.type = "MainDiagonalShutterPattern" ->
            MainDiagonalShutterPattern_cell(this, r, c)
      [] this.type = "DiamondPattern" -> DiamondPattern_cell(this, r, c)
      [] this.type = "BoxPattern" -> BoxPattern_cell(this, r, c)
      [] this.type \in {"RandomPattern", "InfectPattern"} ->
            Stored_cell(this, r, c)
      [] this.type = "PatternInterlaced" ->
            PatternInterlaced_cell(this, cell(this.wrapped, r, c))
      [] this.type = "PatternReversed" ->
            PatternReversed_cell(this, cell(this.wrapped, r, c))
      [] this.type = "PatternReflected" ->
            PatternReflected_cell(this, cell(this.wrapped, r, c))
      [] this.type = "PatternMirrored" ->
            cell(this.wrapped, r, this.column_ct - c - 1)
      [] this.type = "PatternFlipped" ->
            cell(this.wrapped, this.row_ct - r - 1, c)

\* the cells of the grid, and of the grid with its one ring of border cells
GridCells(this) == (0 .. this.row_ct - 1) \X (0 .. this.column_ct - 1)
RingCells(this) == (-1 .. this.row_ct) \X (-1 .. this.column_ct)

\* how many wrappers are nested around the base generator
RECURSIVE Depth(_)
Depth(this) ==
    IF this.type \in WrapperClasses THEN 1 + Depth(this.wrapped) ELSE 0

\* the base generator inside the wrappers
RECURSIVE Base(_)
Base(this) == IF this.type \in WrapperClasses THEN Base(this.wrapped) ELSE this

\* --------------------------------------------------------- InfectPattern
\* "Generate an empty grid": row_ct + 2 arrays of column_ct + 2 empty slots
EmptyCells(row_ct, column_ct) ==
    [r \in 0 .. row_ct + 1 |-> [c \in 0 .. column_ct + 1 |-> Undefined]]

\* num_seeds = Math.ceil(density * cell_ct), density = 1 / DensityDen
InfectPattern_num_seeds(row_ct, column_ct) ==
    Ceil(row_ct * column_ct, DensityDen)

\* the pushes with the last one repeating [r, c - 1]
Neighbours_LeftTwice(r, c) ==
    << <<r - 1, c>>, <<r + 1, c>>, <<r, c - 1>>, <<r, c - 1>> >>

\* the four pushes onto next_round around (r, c)
Neighbours(r, c) == << <<r - 1, c>>, <<r + 1, c>>, <<r, c - 1>>, <<r, c + 1>> >>

\* the seed loop's body once an unseen n is drawn: the seed cell gets step 0
PlaceSeed(column_ct, cells, next_round, n) ==
    LET r == Floor(n, column_ct)
        c == n % column_ct
    IN  [cells |-> [cells EXCEPT ![r + 1][c + 1] = 0],
         next_round |-> next_round \o Neighbours(r, c)]

\* the flood fill's first test with the border ring left out on two sides
InRing_NoTopLeft(row_ct, column_ct, r, c) ==
    ~(r < 0 \/ r > row_ct \/ c < 0 \/ c > column_ct)

\* the flood fill keeps the cells that pass its first test (the negation of
\* r < -1 || r > row_ct || c < -1 || c > column_ct)
InRing(row_ct, column_ct, r, c) ==
    ~(r < -1 \/ r > row_ct \/ c < -1 \/ c > column_ct)

\* the body of for (const [r, c] of this_round): acc holds cells and
\* next_round
FloodVisit(row_ct, column_ct, acc, r, c, step) ==
    IF ~InRing(row_ct, column_ct, r, c)
    THEN acc
    ELSE IF acc.cells[r + 1][c + 1] # Undefined
    THEN acc
    ELSE [cells |-> [acc.cells EXCEPT ![r + 1][c + 1] = step],
          next_round |-> acc.next_round \o Neighbours(r, c)]

\* for (const [r, c] of this_round) { ... } from its k-th element on; the
\* loop's state after an element is bound as a value (a, k1) before the loop
\* goes on
RECURSIVE FloodLoop(_, _, _, _, _, _)
FloodLoop(row_ct, column_ct, acc, this_round, k, step) ==
    IF k > Len(this_round)
    THEN acc
    ELSE CHOOSE out \in
            { FloodLoop(row_ct, column_ct, a, this_round, k1, step) :
                a \in { FloodVisit(row_ct, column_ct, acc, this_round[k][1],
                                   this_round[k][2], step) },
                k1 \in { k + 1 } } : TRUE

FloodRound(row_ct, column_ct, cells, this_round, k, next_round, step) ==
    FloodLoop(row_ct, column_ct, [cells |-> cells, next_round |-> next_round],
              this_round, k, step)

\* while (next_round.length > 0) { ...; step++ }: the cells and the final step
RECURSIVE Floodfill(_, _, _, _, _)
Floodfill(row_ct, column_ct, cells, next_round, step) ==
    IF Len(next_round) = 0
    THEN [cells |-> cells, step |-> step]
    ELSE LET round == FloodRound(row_ct, column_ct, cells, next_round, 1,
                                 <<>>, step)
         IN  Floodfill(row_ct, column_ct, round.cells, round.next_round,
                       step + 1)

\* the seed loop over the accepted draws seeds[k], seeds[k+1], ...
RECURSIVE PlaceSeeds(_, _, _, _, _)
PlaceSeeds(column_ct, cells, next_round, seeds, k) ==
    IF k > Len(seeds)
    THEN [cells |-> cells, next_round |-> next_round]
    ELSE LET placed == PlaceSeed(column_ct, cells, next_round, seeds[k])
         IN  PlaceSeeds(column_ct, placed.cells, placed.next_round, seeds,
                        k + 1)

\* the object the constructor leaves: max_step is defined as step - 1
InfectObject(row_ct, column_ct, cells, step) ==
    PatternGenerator("InfectPattern", row_ct, column_ct) @@
        [cells |-> cells, max_step |-> step - 1]

\* new InfectPattern(row_ct, column_ct); seeds are the draws the seed loop
\* accepted (distinct numbers below cell_ct), in order
InfectPattern(row_ct, column_ct, seeds) ==
    LET seeded == PlaceSeeds(column_ct, EmptyCells(row_ct, column_ct), <<>>,
                             seeds, 1)
        filled == Floodfill(row_ct, column_ct, seeded.cells,
                            seeded.next_round, 1)
    IN  InfectObject(row_ct, column_ct, filled.cells, filled.step)

\* ------------------------------------------------- the constructors' draws
\* RowPattern / ColumnPattern: a bounded family of the count draws below
\* range: every offset takes every value, constant arrays (all range - 1
\* among them) included
OffsetDraws(count, range) ==
    { [k \in 0 .. count - 1 |-> IF range = 0 THEN 0 ELSE (a + b * k) % range] :
      a \in RandomInt(range), b \in 0 .. MaxOffsetSlope }

\* RandomPattern: a bounded family of the (row_ct+2) x (column_ct+2) draws
\* below range: every cell takes every value, constant grids included
RandomCellDraws(row_ct, column_ct, range) ==
    { [r \in 0 .. row_ct + 1 |-> [c \in 0 .. column_ct + 1 |->
          (a + b * (r * (column_ct + 2) + c)) % range]] :
      a \in RandomInt(range), b \in 0 .. MaxRandomSlope }

\* InfectPattern: the sequences of num_seeds distinct accepted draws
SeedDraws(cell_ct, num_seeds) ==
    { q \in [1 .. num_seeds -> RandomInt(cell_ct)] :
        \A i, j \in 1 .. num_seeds : i # j => q[i] # q[j] }

BaseClasses ==
    PlainClasses \cup {"RowPattern", "ColumnPattern", "RandomPattern",
                       "InfectPattern"}

\* new generator_tree(rows, columns, ...extra_args): the objects the
\* constructor of `class` can leave, over its random draws
Construct(class, rows, columns, droop) ==
    CASE class = "RowPattern" ->
            { RowPattern(rows, columns, droop, o) :
                o \in OffsetDraws(columns + 2, RowPattern_range(rows, droop)) }
      [] class = "ColumnPattern" ->
            { ColumnPattern(rows, columns, droop, o) :
                o \in OffsetDraws(rows + 2,
                                  ColumnPattern_range(columns, droop)) }
      [] class = "RandomPattern" ->
            { RandomPattern(rows, columns, cs) :
                cs \in RandomCellDraws(rows, columns,
                    RandomPattern_get_max_step(
                        PatternGenerator("RandomPattern", rows, columns))) }
      [] class = "InfectPattern" ->
            { InfectPattern(rows, columns, q) :
                q \in SeedDraws(rows * columns,
                                InfectPattern_num_seeds(rows, columns)) }
      [] class \in PlainClasses -> { PlainPattern(class, rows, columns) }

\* --------------------------------------------------------- GeneratorView
Patterns == {"wipe", "curtain", "shutter", "diamond", "box", "random", "infect"}
Directions == {"row", "column", "diagonal"}

\* PATTERN_GENERATORS[pattern].extra_controls / .extra_args
extra_controls(pattern) ==
    IF pattern \in {"wipe", "curtain", "shutter"} THEN <<"direction">> ELSE <<>>
extra_args(pattern) == IF pattern = "wipe" THEN <<"droop">> ELSE <<>>

\* PATTERN_GENERATORS[pattern].generator, followed through extra_controls
generator_tree(pattern, direction) ==
    CASE pattern = "wipe" ->
            (CASE direction = "row" -> "RowPattern"
               [] direction = "column" -> "ColumnPattern"
               [] direction = "diagonal" -> "DiagonalPattern")
      [] pattern = "curtain" ->
            (CASE direction = "row" -> "RowCurtainPattern"
               [] direction = "column" -> "ColumnCurtainPattern"
               [] direction = "diagonal" -> "DiagonalCurtainPattern")
      [] pattern = "shutter" ->
            (CASE direction = "row" -> "RowShutterPattern"
               [] direction = "column" -> "ColumnShutterPattern"
               [] direction = "diagonal" -> "MainDiagonalShutterPattern")
      [] pattern = "diamond" -> "DiamondPattern"
      [] pattern = "box" -> "BoxPattern"
      [] pattern = "random" -> "RandomPattern"
      [] pattern = "infect" -> "InfectPattern"

\* get_generator applying reverse before reflect
apply_wrappers_ReverseFirst(s, base) ==
    LET g1 == IF s.interlace > 1
              THEN PatternInterlaced(base, s.interlace) ELSE base
        g2 == IF s.reverse THEN PatternReversed(g1) ELSE g1
        g3 == IF s.reflect THEN PatternReflected(g2) ELSE g2
        g4 == IF s.mirror THEN PatternMirrored(g3) ELSE g3
        g5 == IF s.flip THEN PatternFlipped(g4) ELSE g4
    IN  g5

\* get_generator: "Apply wrappers, if appropriate"
apply_wrappers(s, base) ==
    LET g1 == IF s.interlace > 1
              THEN PatternInterlaced(base, s.interlace) ELSE base
        g2 == IF s.reflect THEN PatternReflected(g1) ELSE g1
        g3 == IF s.reverse THEN PatternReversed(g2) ELSE g2
        g4 == IF s.mirror THEN PatternMirrored(g3) ELSE g3
        g5 == IF s.flip THEN PatternFlipped(g4) ELSE g4
    IN  g5

\* GeneratorView.get_generator() with this.settings = s: the generators it
\* can return, over the constructor's random draws
get_generator(s) ==
    { apply_wrappers(s, base) :
        base \in Construct(generator_tree(s.pattern, s.direction),
                           s.rows, s.columns,
                           IF Len(extra_args(s.pattern)) > 0
                           THEN s.droop ELSE 0) }

\* the settings the controls can hold, within the bounds; a control that the
\* selected pattern hides keeps its initial value
Settings ==
    { s \in [pattern : Patterns, direction : Directions,
             droop : 0 .. DroopDen,
             rows : 1 .. MaxRows, columns : 1 .. MaxCols,
             interlace : 1 .. MaxStride,
             reflect : BOOLEAN, reverse : BOOLEAN,
             mirror : BOOLEAN, flip : BOOLEAN] :
        /\ Len(extra_controls(s.pattern)) = 0 => s.direction = "row"
        /\ Len(extra_args(s.pattern)) = 0 => s.droop = 0 }

\* the generator was constructed directly, not by get_generator
NoSettings == [pattern |-> "none"]
NoGenerator == [type |-> "none"]
InfectIdle == [pc |-> "idle"]
TraceIdle == [pc |-> "idle"]
NoMask == [pc |-> "idle"]
NoPlayer == [pc |-> "none"]

\* ---------------------------------------------------------------- actions
\* Either a GeneratorView whose controls have been read (its constructor is
\* about to call update_preview), or no view at all: the generator classes
\* are then constructed directly.  A later input event leaves a view in the
\* state a new view with those control values starts in, so the control
\* values are drawn here.
Init ==
    /\ player = NoPlayer
    /\ settings \in Settings \cup {NoSettings}
    /\ generator = NoGenerator
    /\ infect = InfectIdle
    /\ trace = TraceIdle
    /\ mask = NoMask

\* update_preview(): builds the generator from the settings
UpdatePreview ==
    /\ generator = NoGenerator
    /\ settings # NoSettings
    /\ generator' \in get_generator(settings)
    /\ UNCHANGED <<settings, infect, trace, mask, player>>

\* new <class>(rows, columns, droop) for a base class
NewGenerator ==
    /\ generator = NoGenerator
    /\ settings = NoSettings
    /\ \E class \in BaseClasses, rows \in 1 .. MaxRows, columns \in 1 .. MaxCols :
          \E droop \in (IF class \in {"RowPattern", "ColumnPattern"}
                        THEN 0 .. DroopDen ELSE {0}) :
              generator' \in Construct(class, rows, columns, droop)
    /\ UNCHANGED <<settings, infect, trace, mask, player>>

\* a wrapper can be constructed around the generator
CanWrap ==
    /\ generator # NoGenerator
    /\ settings = NoSettings
    /\ Depth(generator) < MaxWrap

\* new PatternInterlaced(generator, stride)
NewInterlaced ==
    /\ CanWrap
    /\ \E stride \in 1 .. MaxStride :
          generator' = PatternInterlaced(generator, stride)
    /\ UNCHANGED <<settings, infect, trace, mask, player>>

\* new PatternReflected(generator)
NewReflected ==
    /\ CanWrap
    /\ generator' = PatternReflected(generator)
    /\ UNCHANGED <<settings, infect, trace, mask, player>>

\* new PatternReversed(generator)
NewReversed ==
    /\ CanWrap
    /\ generator' = PatternReversed(generator)
    /\ UNCHANGED <<settings, infect, trace, mask, player>>

\* new PatternMirrored(generator)
NewMirrored ==
    /\ CanWrap
    /\ generator' = PatternMirrored(generator)
    /\ UNCHANGED <<settings, infect, trace, mask, player>>

\* new PatternFlipped(generator)
NewFlipped ==
    /\ CanWrap
    /\ generator' = PatternFlipped(generator)
    /\ UNCHANGED <<settings, infect, trace, mask, player>>

Next ==
    \/ UpdatePreview
    \/ NewGenerator
    \/ NewInterlaced
    \/ NewReflected
    \/ NewReversed
    \/ NewMirrored
    \/ NewFlipped

Spec == Init /\ [][Next]_vars

\* --------------------------------- the InfectPattern constructor, by steps
\* The constructor's frame: pc is the place in the constructor, n the seed
\* loop's current draw, i the seed loop's counter.  n and step are Undefined
\* until the constructor declares them.
InfectStart(row_ct, column_ct) ==
    [pc |-> "seed", row_ct |-> row_ct, column_ct |-> column_ct,
     cells |-> EmptyCells(row_ct, column_ct), seen |-> {},
     next_round |-> <<>>, i |-> 0, n |-> Undefined, step |-> Undefined]

cell_ct(f) == f.row_ct * f.column_ct

\* new InfectPattern(row_ct, column_ct) has been entered and has generated
\* its empty grid
InitInfect ==
    /\ player = NoPlayer
    /\ settings = NoSettings
    /\ generator = NoGenerator
    /\ trace = TraceIdle
    /\ mask = NoMask
    /\ \E row_ct \in 1 .. InfectRows, column_ct \in 1 .. InfectCols :
          /\ row_ct * column_ct <= InfectCells
          /\ infect = InfectStart(row_ct, column_ct)

\* let n = Math.floor(Math.random() * cell_ct)
InfectDraw ==
    /\ infect.pc = "seed"
    /\ \E n \in RandomInt(cell_ct(infect)) :
          infect' = [infect EXCEPT !.n = n, !.pc = "check"]
    /\ UNCHANGED <<settings, generator, trace, mask, player>>

\* while (seen[n]) { n = Math.floor(Math.random() * cell_ct); }
InfectRedraw ==
    /\ infect.pc = "check"
    /\ infect.n \in infect.seen
    /\ \E n \in RandomInt(cell_ct(infect)) :
          infect' = [infect EXCEPT !.n = n]
    /\ UNCHANGED <<settings, generator, trace, mask, player>>

\* the rest of the seed loop's body, and the loop's next iteration or, after
\* the last seed, let step = 1
InfectPlace ==
    /\ infect.pc = "check"
    /\ infect.n \notin infect.seen
    /\ LET placed == PlaceSeed(infect.column_ct, infect.cells,
                               infect.next_round, infect.n)
           more == infect.i + 1 <
                       InfectPattern_num_seeds(infect.row_ct, infect.column_ct)
       IN  infect' = [infect EXCEPT
                         !.seen = @ \cup {infect.n},
                         !.cells = placed.cells,
                         !.next_round = placed.next_round,
                         !.i = @ + 1,
                         !.pc = IF more THEN "seed" ELSE "floodfill",
                         !.step = IF more THEN @ ELSE 1]
    /\ UNCHANGED <<settings, generator, trace, mask, player>>

\* one iteration of while (next_round.length > 0)
InfectRound ==
    /\ infect.pc = "floodfill"
    /\ Len(infect.next_round) > 0
    /\ LET round == FloodRound(infect.row_ct, infect.column_ct, infect.cells,
                               infect.next_round, 1, <<>>, infect.step)
       IN  infect' = [infect EXCEPT
                         !.cells = round.cells,
                         !.next_round = round.next_round,
                         !.step = @ + 1]
    /\ UNCHANGED <<settings, generator, trace, mask, player>>

\* the loop ends; max_step is defined and the constructor returns
InfectDone ==
    /\ infect.pc = "floodfill"
    /\ Len(infect.next_round) = 0
    /\ infect' = [infect EXCEPT !.pc = "done"]
    /\ generator' = InfectObject(infect.row_ct, infect.column_ct,
                                 infect.cells, infect.step)
    /\ UNCHANGED <<settings, trace, mask, player>>

NextInfect ==
    \/ InfectDraw
    \/ InfectRedraw
    \/ InfectPlace
    \/ InfectRound
    \/ InfectDone

SpecInfect == InitInfect /\ [][NextInfect]_vars

\* a redraw that leaves the while loop: Math.random() does not return seen
\* numbers for ever while an unseen one exists
InfectRedrawFresh == InfectRedraw /\ infect'.n \notin infect.seen

\* a step of the constructor other than a redraw of a seen number
InfectProgress ==
    \/ InfectDraw
    \/ InfectRedrawFresh
    \/ InfectPlace
    \/ InfectRound
    \/ InfectDone

\* the constructor runs to completion without suspending
FairInfect == SpecInfect /\ WF_vars(InfectProgress)

\* ---------------------------------------------------------------- numbers
\* A JS number is carried as the fraction <<n, d>> in lowest terms with
\* d > 0; Infinity is <<1, 0>>, -Infinity <<-1, 0>> and NaN <<0, 0>>.  The
\* operations are exact on fractions and follow IEEE 754 where a value is
\* not finite (0 / 0 = NaN, x / 0 = +-Infinity, 0 * Infinity = NaN,
\* Infinity - Infinity = NaN, a comparison with NaN is false); -0 is not
\* told from 0, and a double's rounding is modelled for Math.sqrt only.
\* Every operation evaluates its operands once and works on their values.
RECURSIVE GCD(_, _)
GCD(a, b) ==
    LET op(m, n) == IF n = 0 THEN m ELSE GCD(n, m % n)
    IN  CHOOSE r \in { op(p[1], p[2]) : p \in {<<a, b>>} } : TRUE
Abs(n) == CHOOSE r \in { IF m < 0 THEN -m ELSE m : m \in {n} } : TRUE
Sgn(n) ==
    CHOOSE r \in { IF m < 0 THEN -1 ELSE IF m = 0 THEN 0 ELSE 1 : m \in {n} } :
        TRUE
Rat(n, d) ==
    LET op(m, e) ==
            IF e = 0 THEN <<Sgn(m), 0>>
            ELSE CHOOSE r \in { <<Sgn(e) * (m \div g), Sgn(e) * (e \div g)>> :
                                  g \in {GCD(Abs(m), Abs(e))} } : TRUE
    IN  CHOOSE r \in { op(p[1], p[2]) : p \in {<<n, d>>} } : TRUE
R(n) == <<n, 1>>
NaN == <<0, 0>>
Infinity == <<1, 0>>
IsFinite(x) == x[2] # 0
RAdd(x, y) ==
    LET op(a, b) ==
            IF IsFinite(a) /\ IsFinite(b)
            THEN Rat(a[1] * b[2] + b[1] * a[2], a[2] * b[2])
            ELSE IF a = NaN \/ b = NaN THEN NaN
            ELSE IF IsFinite(b) THEN a
            ELSE IF IsFinite(a) \/ a = b THEN b
            ELSE NaN
    IN  CHOOSE r \in { op(p[1], p[2]) : p \in {<<x, y>>} } : TRUE
RNeg(x) == CHOOSE r \in { <<-a[1], a[2]>> : a \in {x} } : TRUE
RSub(x, y) == RAdd(x, RNeg(y))
RMul(x, y) ==
    CHOOSE r \in { Rat(p[1][1] * p[2][1], p[1][2] * p[2][2]) :
                     p \in {<<x, y>>} } : TRUE
RDiv(x, y) ==
    LET op(a, b) ==
            IF b[1] = 0 THEN (IF b = NaN THEN NaN ELSE Rat(a[1], 0))
            ELSE Rat(a[1] * b[2] * Sgn(b[1]), a[2] * Abs(b[1]))
    IN  CHOOSE r \in { op(p[1], p[2]) : p \in {<<x, y>>} } : TRUE
RLt(x, y) ==
    LET op(a, b) ==
            /\ a # NaN /\ b # NaN
            /\ IF IsFinite(a) \/ IsFinite(b) THEN a[1] * b[2] < b[1] * a[2]
               ELSE a[1] < b[1]
    IN  \E p \in {<<x, y>>} : op(p[1], p[2])
RLe(x, y) ==
    LET op(a, b) ==
            /\ a # NaN /\ b # NaN
            /\ IF IsFinite(a) \/ IsFinite(b) THEN a[1] * b[2] <= b[1] * a[2]
               ELSE a[1] <= b[1]
    IN  \E p \in {<<x, y>>} : op(p[1], p[2])
RAbs(x) == CHOOSE r \in { <<Abs(a[1]), a[2]>> : a \in {x} } : TRUE
\* Math.min(x, y), Math.max(x, y)
RMin(x, y) ==
    LET op(a, b) ==
            IF a = NaN \/ b = NaN THEN NaN ELSE IF RLt(b, a) THEN b ELSE a
    IN  CHOOSE r \in { op(p[1], p[2]) : p \in {<<x, y>>} } : TRUE
RMax(x, y) ==
    LET op(a, b) ==
            IF a = NaN \/ b = NaN THEN NaN ELSE IF RLt(a, b) THEN b ELSE a
    IN  CHOOSE r \in { op(p[1], p[2]) : p \in {<<x, y>>} } : TRUE
\* Math.floor(x) of a finite x, as an integer
RFloor(x) == CHOOSE r \in { Floor(a[1], a[2]) : a \in {x} } : TRUE

\* ------------------------------------------------------------ trace_line
\* The generator's frame: the locals of trace_line, and out, the cells
\* yielded so far.  The coordinates are fractions; a and b are integers.
\* trace_line from its entry to its first loop test (or, for a zero-length
\* segment, to its return)
trace_line_setup(x0, y0, x1, y1) ==
    LET dx == RSub(x1, x0)
        dy == RSub(y1, y0)
        a == RFloor(x0)
        b == RFloor(y0)
        ox1 == RSub(R(1), RSub(x0, R(a)))
        ox2 == IF RLt(dx, R(0)) THEN RSub(R(1), ox1) ELSE ox1
        offset_x == IF ox2 = R(0) THEN R(1) ELSE ox2
        oy1 == RSub(R(1), RSub(y0, R(b)))
        oy2 == IF RLt(dy, R(0)) THEN RSub(R(1), oy1) ELSE oy1
        offset_y == IF oy2 = R(0) THEN R(1) ELSE oy2
        adx == RAbs(dx)
        ady == RAbs(dy)
        err == RSub(RMul(ady, offset_x), RMul(adx, offset_y))
        main_x == RLt(ady, adx)
    IN  IF dx = R(0) /\ dy = R(0)
        THEN [pc |-> "done", out |-> << <<a, b>> >>]
        ELSE [pc |-> "loop", out |-> <<>>,
              a |-> a, b |-> b,
              dx |-> adx, dy |-> ady,
              step_a |-> IF RLt(dx, R(0)) THEN -1 ELSE 1,
              step_b |-> IF RLt(dy, R(0)) THEN -1 ELSE 1,
              main_x |-> main_x,
              err |-> IF main_x THEN err ELSE RNeg(err),
              min_x |-> RFloor(RMin(x0, x1)), max_x |-> RFloor(RMax(x0, x1)),
              min_y |-> RFloor(RMin(y0, y1)), max_y |-> RFloor(RMax(y0, y1))]

\* the loops' test: min_x <= a && a <= max_x && min_y <= b && b <= max_y
trace_line_test(f) ==
    /\ f.min_x <= f.a /\ f.a <= f.max_x
    /\ f.min_y <= f.b /\ f.b <= f.max_y

\* one iteration of the loop of the main axis x (dx > dy)
trace_line_body_x(f) ==
    LET minor == RLt(R(0), f.err)
        b == IF minor THEN f.b + f.step_b ELSE f.b
        err == IF minor THEN RSub(f.err, f.dx) ELSE f.err
    IN  [f EXCEPT !.out = (@ \o << <<f.a, f.b>> >>)
                           \o (IF minor THEN << <<f.a, b>> >> ELSE <<>>),
                  !.b = b,
                  !.err = RAdd(err, f.dy),
                  !.a = @ + f.step_a]

\* one iteration of the loop of the main axis y
trace_line_body_y(f) ==
    LET minor == RLt(R(0), f.err)
        a == IF minor THEN f.a + f.step_a ELSE f.a
        err == IF minor THEN RSub(f.err, f.dy) ELSE f.err
    IN  [f EXCEPT !.out = (@ \o << <<f.a, f.b>> >>)
                           \o (IF minor THEN << <<a, f.b>> >> ELSE <<>>),
                  !.a = a,
                  !.err = RAdd(err, f.dx),
                  !.b = @ + f.step_b]

trace_line_body(f) ==
    IF f.main_x THEN trace_line_body_x(f) ELSE trace_line_body_y(f)

\* the loop run to its end; each iteration's frame is bound as a value
RECURSIVE trace_line_loop(_)
trace_line_loop(f) ==
    IF f.pc = "loop" /\ trace_line_test(f)
    THEN CHOOSE r \in { trace_line_loop(g) : g \in {trace_line_body(f)} } : TRUE
    ELSE f

\* the cells trace_line(x0, y0, x1, y1) yields, in order
trace_line(x0, y0, x1, y1) ==
    CHOOSE out \in { trace_line_loop(trace_line_setup(p[1], p[2], p[3],
                                                      p[4])).out :
                       p \in {<<x0, y0, x1, y1>>} } : TRUE

\* ------------------------------------------- the trace_line generator, run
\* A caller iterates trace_line(x0, y0, x1, y1) to its end: trace.args are the
\* arguments, trace.f the generator's frame.
TraceCoords == { Rat(k, TraceDen) : k \in 0 .. TraceMax * TraceDen }

InitTrace ==
    /\ player = NoPlayer
    /\ settings = NoSettings
    /\ generator = NoGenerator
    /\ infect = InfectIdle
    /\ mask = NoMask
    /\ \E x0 \in TraceCoords, y0 \in TraceCoords,
          x1 \in TraceCoords, y1 \in TraceCoords :
          trace = [args |-> <<x0, y0, x1, y1>>, f |-> [pc |-> "call"]]

\* the first next(): the generator runs from its entry to the loop
TraceEnter ==
    /\ trace # TraceIdle
    /\ trace.f.pc = "call"
    /\ trace' = [trace EXCEPT !.f = trace_line_setup(trace.args[1],
                     trace.args[2], trace.args[3], trace.args[4])]
    /\ UNCHANGED <<settings, generator, infect, mask, player>>

\* one iteration of the while loop
TraceIterate ==
    /\ trace # TraceIdle
    /\ trace.f.pc = "loop"
    /\ trace_line_test(trace.f)
    /\ trace' = [trace EXCEPT !.f = trace_line_body(trace.f)]
    /\ UNCHANGED <<settings, generator, infect, mask, player>>

\* the loop's test fails and the generator returns
TraceReturn ==
    /\ trace # TraceIdle
    /\ trace.f.pc = "loop"
    /\ ~trace_line_test(trace.f)
    /\ trace' = [trace EXCEPT !.f.pc = "done"]
    /\ UNCHANGED <<settings, generator, infect, mask, player>>

NextTrace ==
    \/ TraceEnter
    \/ TraceIterate
    \/ TraceReturn

SpecTrace == InitTrace /\ [][NextTrace]_vars

\* the caller keeps iterating the generator
FairTrace == SpecTrace /\ WF_vars(NextTrace)

\* ------------------------------------------------ generate_particle_wipe_mask
\* Math.sqrt(x) for x >= 0, rounded down to a multiple of 1 / SqrtDen
Sqrt(x) ==
    LET root(m) == CHOOSE k \in 0 .. m + 1 : k * k <= m /\ (k + 1) * (k + 1) > m
        op(a) ==
            IF ~IsFinite(a) THEN a
            ELSE CHOOSE r \in { Rat(root(m), SqrtDen) :
                    m \in {Floor(a[1] * SqrtDen * SqrtDen, a[2])} } : TRUE
    IN  CHOOSE r \in { op(a) : a \in {x} } : TRUE

\* particle_pixels.data[(ax + ay * particle_width) * 4 + 3]: an index
\* outside the array reads undefined
alpha_at(particle, ax, ay) ==
    LET n == ax + ay * particle.width
    IN  IF 0 <= n /\ n < particle.width * particle.height
        THEN particle.data[n] ELSE Undefined

\* the loop over trace_line's cells: the first cell that is neither skipped
\* for ax >= particle_width || ay >= particle_height nor for alpha < 128
\* (undefined < 128 is false), or 0 when no cell is left
first_hit(particle, cells) ==
    LET hits == { k \in 1 .. Len(cells) :
                    /\ ~(cells[k][1] >= particle.width
                         \/ cells[k][2] >= particle.height)
                    /\ \E alpha \in {alpha_at(particle, cells[k][1],
                                              cells[k][2])} :
                          alpha = Undefined \/ alpha >= AlphaThreshold }
    IN  CHOOSE r \in { IF h = {} THEN 0
                       ELSE CHOOSE k \in h : \A j \in h : k <= j :
                         h \in {hits} } : TRUE

\* hit_scale for the ray from (ix, iy) to the particle's centre
hit_scale(particle, ix, iy) ==
    LET pcx == Rat(particle.width, 2)
        pcy == Rat(particle.height, 2)
        sq(x) == RMul(x, x)
        found(cells, k) ==
            IF k = 0 THEN R(0)
            ELSE Sqrt(RDiv(RAdd(sq(RSub(ix, pcx)), sq(RSub(iy, pcy))),
                           RAdd(sq(RSub(R(cells[k][1]), pcx)),
                                sq(RSub(R(cells[k][2]), pcy)))))
        search(cells) ==
            CHOOSE r \in { found(cells, k) :
                             k \in {first_hit(particle, cells)} } : TRUE
    IN  CHOOSE r \in { search(cells) :
                         cells \in {trace_line(ix, iy, pcx, pcy)} } : TRUE

\* the loop body's dx, dy, scale and, unless scale === 0, the entry point
\* ix = pcx + dx / scale, iy = pcx + dy / scale
entry_point(particle, column_width, row_height, px, py) ==
    LET pcx == Rat(particle.width, 2)
        dx == RSub(Rat(2 * px + 1, 2), Rat(column_width * 3, 2))
        dy == RSub(Rat(2 * py + 1, 2), Rat(row_height * 3, 2))
        size_x == RAbs(RMul(dx, R(2)))
        size_y == RAbs(RMul(dy, R(2)))
    IN  CHOOSE r \in { IF scale = R(0)
                       THEN [dx |-> dx, dy |-> dy, scale |-> scale]
                       ELSE [dx |-> dx, dy |-> dy, scale |-> scale,
                             ix |-> RAdd(pcx, RDiv(dx, scale)),
                             iy |-> RAdd(pcx, RDiv(dy, scale))] :
                         scale \in {RMax(RDiv(size_x, R(particle.width)),
                                         RDiv(size_y, R(particle.height)))} } :
            TRUE

\* one entry of box_scales: the body of the loop over px
box_scale(particle, column_width, row_height, px, py) ==
    CHOOSE r \in { IF e.scale = R(0) THEN R(0)
                   ELSE RMul(e.scale, hit_scale(particle, e.ix, e.iy)) :
                     e \in {entry_point(particle, column_width, row_height,
                                        px, py)} } : TRUE

\* Math.max / Math.min of a list of numbers
MaxOf(S) ==
    CHOOSE r \in { IF NaN \in T THEN NaN
                   ELSE CHOOSE x \in T : \A y \in T : RLe(y, x) :
                     T \in {S} } : TRUE
MinOf(S) ==
    CHOOSE r \in { IF NaN \in T THEN NaN
                   ELSE CHOOSE x \in T : \A y \in T : RLe(x, y) :
                     T \in {S} } : TRUE

\* a function given by its graph, a set of pairs <<argument, value>>
Fn(graph) ==
    CHOOSE r \in { [a \in { p[1] : p \in g } |->
                      (CHOOSE p \in g : p[1] = a)[2]] : g \in {graph} } : TRUE

\* the stamp: box_scales, and max_scale over the stamp's middle tile
stamp(particle, column_width, row_height) ==
    LET row(py) ==
            Fn({ <<px, box_scale(particle, column_width, row_height, px, py)>> :
                   px \in 0 .. column_width * 3 - 1 })
    IN  CHOOSE r \in
            { [box_scales |-> box_scales,
               max_scale |->
                  MaxOf({R(0)} \cup
                        { box_scales[py][px] :
                            py \in row_height .. row_height * 2 - 1,
                            px \in column_width .. column_width * 2 - 1 })] :
              box_scales \in
                  { Fn({ <<py, row(py)>> : py \in 0 .. row_height * 3 - 1 }) }
            } : TRUE

\* pixel_samples sampling all nine tiles, the board's edge not tested
pixel_samples_NoSkip(m, x, y) ==
    LET col == x \div m.column_width
        row == y \div m.row_height
        bx == x % m.column_width
        by == y % m.row_height
    IN  [row |-> row, col |-> col, bx |-> bx, by |-> by,
         samples |->
            { [srow |-> row + 1 - dd[1], scol |-> col + 1 - dd[2],
               sy |-> by + m.row_height * dd[1],
               sx |-> bx + m.column_width * dd[2]] :
              dd \in (0 .. 2) \X (0 .. 2) }]

\* one pixel of the pixel loop, its indices: the owning cell (row, col), the
\* offset (bx, by) in it, and for each tile <<drow, dcol>> not skipped the
\* cell (srow, scol) passed to generator.cell and the index [sy][sx] read
\* from box_scales
pixel_samples(m, x, y) ==
    LET col == x \div m.column_width
        row == y \div m.row_height
        bx == x % m.column_width
        by == y % m.row_height
    IN  [row |-> row, col |-> col, bx |-> bx, by |-> by,
         samples |->
            { [srow |-> row + 1 - dd[1], scol |-> col + 1 - dd[2],
               sy |-> by + m.row_height * dd[1],
               sx |-> bx + m.column_width * dd[2]] :
              dd \in { dd \in (0 .. 2) \X (0 .. 2) :
                         /\ ~(row + 1 - dd[1] < 0 \/ row + 1 - dd[1] >= m.row_ct)
                         /\ ~(col + 1 - dd[2] < 0
                              \/ col + 1 - dd[2] >= m.column_ct) } }]

\* one pixel of the pixel loop: its time
pixel_time_DelayDropped(m, gen, st, x, y) ==
    LET time(ps, step) ==
            RAdd(RMul(R(step), m.delay),
                 RDiv(MinOf({ RAdd(st.box_scales[s.sy][s.sx],
                                   RMul(R(cell(gen, s.srow, s.scol) - step),
                                        st.max_scale)) :
                              s \in ps.samples }), st.max_scale))
    IN  CHOOSE r \in
            { time(p[1], p[2]) :
                p \in { <<ps, cell(gen, ps.row, ps.col)>> :
                          ps \in {pixel_samples(m, x, y)} } } : TRUE
pixel_time_FirstTile(m, gen, st, x, y) ==
    LET time(ps, step) ==
            RAdd(RMul(R(step), m.delay),
                 RDiv(MinOf({ RAdd(st.box_scales[ps.by][ps.bx],
                                   RMul(RMul(R(cell(gen, s.srow, s.scol) - step),
                                             m.delay), st.max_scale)) :
                              s \in ps.samples }), st.max_scale))
    IN  CHOOSE r \in
            { time(p[1], p[2]) :
                p \in { <<ps, cell(gen, ps.row, ps.col)>> :
                          ps \in {pixel_samples(m, x, y)} } } : TRUE
pixel_time(m, gen, st, x, y) ==
    LET time(ps, step) ==
            RAdd(RMul(R(step), m.delay),
                 RDiv(MinOf({ RAdd(st.box_scales[s.sy][s.sx],
                                   RMul(RMul(R(cell(gen, s.srow, s.scol) - step),
                                             m.delay), st.max_scale)) :
                              s \in ps.samples }), st.max_scale))
    IN  CHOOSE r \in
            { time(p[1], p[2]) :
                p \in { <<ps, cell(gen, ps.row, ps.col)>> :
                          ps \in {pixel_samples(m, x, y)} } } : TRUE

\* ------------------------------------------------------ the channel encoder
\* value % 1: the remainder has the dividend's sign
RMod1(x) ==
    LET op(a) ==
            IF ~IsFinite(a) THEN NaN
            ELSE IF a[1] >= 0 THEN RSub(a, R(RFloor(a)))
            ELSE RNeg(RSub(RNeg(a), R(RFloor(RNeg(a)))))
    IN  CHOOSE r \in { op(a) : a \in {x} } : TRUE

\* pixels.data[i] = Math.floor(x): a Uint8ClampedArray stores NaN as 0 and
\* clamps any other number to 0 .. 255
Uint8Clamped(x) ==
    LET op(a) ==
            IF a = NaN THEN 0
            ELSE IF ~IsFinite(a) THEN (IF a = Infinity THEN 255 ELSE 0)
            ELSE CHOOSE r \in { IF n < 0 THEN 0 ELSE IF n > 255 THEN 255
                                ELSE n : n \in {RFloor(a)} } : TRUE
    IN  CHOOSE r \in { op(a) : a \in {x} } : TRUE

\* the four bytes written for one pixel
encode_NoRemainder(value) ==
    CHOOSE r \in
        { CHOOSE q \in
            { CHOOSE t \in
                { <<Uint8Clamped(v0), Uint8Clamped(v1), Uint8Clamped(v2), 255>> :
                  v2 \in {RMul(v1, R(256))} } : TRUE :
              v1 \in {RMul(v0, R(256))} } : TRUE :
          v0 \in {RMul(value, R(256))} } : TRUE
encode(value) ==
    CHOOSE r \in
        { CHOOSE q \in
            { CHOOSE t \in
                { <<Uint8Clamped(v0), Uint8Clamped(v1), Uint8Clamped(v2), 255>> :
                  v2 \in {RMul(RMod1(v1), R(256))} } : TRUE :
              v1 \in {RMul(RMod1(v0), R(256))} } : TRUE :
          v0 \in {RMul(value, R(256))} } : TRUE

\* The encoder applied to one value, as the pixel loop applies it.
InitEncode ==
    /\ player = NoPlayer
    /\ settings = NoSettings
    /\ generator = NoGenerator
    /\ infect = InfectIdle
    /\ trace = TraceIdle
    /\ \E d \in 1 .. EncodeDen : \E n \in 0 .. d :
          mask = [pc |-> "value", value |-> Rat(n, d)]

EncodePixel ==
    /\ mask.pc = "value"
    /\ mask' = [pc |-> "encoded", value |-> mask.value,
                pixel |-> encode(mask.value)]
    /\ UNCHANGED <<settings, generator, infect, trace, player>>

SpecEncode == InitEncode /\ [][EncodePixel]_vars

\* The encoder over the whole range: the fractions n / d of [0, 1] with
\* d <= EncodeDen, and the values 1 - n / (256 d) of the last 1/256 below 1
EncodeInputs ==
    UNION { { Rat(n, d), Rat(256 * d - n, 256 * d) } :
            <<n, d>> \in { nd \in (0 .. EncodeDen) \X (1 .. EncodeDen) :
                             nd[1] <= nd[2] } }

InitEncodeRange ==
    /\ player = NoPlayer
    /\ settings = NoSettings
    /\ generator = NoGenerator
    /\ infect = InfectIdle
    /\ trace = TraceIdle
    /\ \E value \in EncodeInputs :
          mask = [pc |-> "value", value |-> value]

SpecEncodeRange == InitEncodeRange /\ [][EncodePixel]_vars

\* --------------------------------------------------- a generation run
\* The Generate button: generate_particle_wipe_mask(particle_canvas,
\* mask_canvas, rows, columns, delay, get_generator()).  mask holds the
\* call's arguments and then its locals; generator is the generator passed.
Alphas == {AlphaThreshold - 1, AlphaOpaque}

Particles ==
    UNION { { [width |-> w, height |-> h, data |-> d] :
                d \in [0 .. w * h - 1 -> Alphas] } :
            <<w, h>> \in { wh \in (1 .. MaxParticle) \X (1 .. MaxParticle) :
                             wh[1] * wh[2] <= MaxParticleCells } }

MaskClasses == {"RowPattern", "ColumnPattern", "DiagonalPattern"}

InitMask ==
    /\ player = NoPlayer
    /\ settings = NoSettings
    /\ generator = NoGenerator
    /\ infect = InfectIdle
    /\ trace = TraceIdle
    /\ \E width \in 1 .. MaxCanvas, height \in 1 .. MaxCanvas,
          row_ct \in 1 .. MaxMaskGrid, column_ct \in 1 .. MaxMaskGrid,
          particle \in Particles :
          \* a canvas of at least one pixel a cell
          /\ row_ct <= height /\ column_ct <= width
          /\ mask = [pc |-> "call", width |-> width, height |-> height,
                     row_ct |-> row_ct, column_ct |-> column_ct,
                     particle |-> particle]

\* up to the stamp: column_width, row_height, each stamp pixel's entry
\* point (by <<px, py>>), box_scales, max_scale
MaskStamp ==
    /\ mask.pc = "call"
    /\ \E column_width \in {Ceil(mask.width, mask.column_ct)},
          row_height \in {Ceil(mask.height, mask.row_ct)} :
          \E st \in {stamp(mask.particle, column_width, row_height)} :
             mask' = [pc |-> "stamped", column_width |-> column_width,
                      row_height |-> row_height,
                      entry |-> Fn({ <<pp, entry_point(mask.particle,
                                          column_width, row_height,
                                          pp[1], pp[2])>> :
                                     pp \in (0 .. column_width * 3 - 1)
                                            \X (0 .. row_height * 3 - 1) }),
                      box_scales |-> st.box_scales,
                      max_scale |-> st.max_scale] @@ mask
    /\ UNCHANGED <<settings, generator, infect, trace, player>>

\* one pixel of the pixel loop: its time, its value and its four bytes
pixel(m, gen, total_time, x, y) ==
    CHOOSE r \in
        { CHOOSE q \in { [time |-> time, value |-> value,
                          bytes |-> encode(value)] :
                         value \in {RDiv(time, total_time)} } : TRUE :
          time \in {pixel_time(m, gen, m, x, y)} } : TRUE

\* total_time and the pixel loop: each pixel's time, value and bytes.  The
\* arguments delay and generator are first read here.
MaskComposite ==
    /\ mask.pc = "stamped"
    /\ \E k \in 0 .. DelayDen, class \in MaskClasses :
          \E gen \in Construct(class, mask.row_ct, mask.column_ct, 0) :
             \E m \in {[delay |-> Rat(k, DelayDen)] @@ mask} :
                \E total_time \in {RAdd(RMul(R(gen.max_step), m.delay), R(1))} :
                   \E out \in {{ <<xy, pixel(m, gen, total_time, xy[1], xy[2])>> :
                                 xy \in (0 .. m.width - 1)
                                        \X (0 .. m.height - 1) }} :
                      /\ generator' = gen
                      /\ mask' = [pc |-> "done", total_time |-> total_time,
                                  time |-> Fn({ <<p[1], p[2].time>> :
                                                p \in out }),
                                  value |-> Fn({ <<p[1], p[2].value>> :
                                                 p \in out }),
                                  pixels |-> Fn({ <<p[1], p[2].bytes>> :
                                                  p \in out })] @@ m
    /\ UNCHANGED <<settings, infect, trace, player>>

NextMask ==
    \/ MaskStamp
    \/ MaskComposite

SpecMask == InitMask /\ [][NextMask]_vars

\* -------------------------------------------------- the Generate button
\* The click handler: generate_particle_wipe_mask(particle_canvas,
\* mask_canvas, settings.rows, settings.columns, settings.delay,
\* this.get_generator()).  The arguments are evaluated before the call, so an
\* exception of get_generator leaves generate_particle_wipe_mask uncalled.
\*
\* get_generator's input is this.settings.  The page's own controls offer
\* the keys of PATTERN_GENERATORS and store every parameter; the selections
\* below also hold what get_generator can be handed beyond that: a pattern
\* PATTERN_GENERATORS lacks (read_control provides for it: it stores the
\* value and returns), a direction the pattern's generator table lacks, and
\* a droop that was never stored and reads as undefined.  Controls the
\* pattern hides keep their initial value.
Selections ==
    { s \in [pattern : Patterns \cup {"pinch"},
             direction : Directions \cup {"radial"},
             droop : (0 .. DroopDen) \cup {Undefined},
             rows : 1 .. MaxRows, columns : 1 .. MaxCols,
             interlace : 1 .. MaxStride,
             reflect : BOOLEAN, reverse : BOOLEAN,
             mirror : BOOLEAN, flip : BOOLEAN] :
        /\ (s.pattern \notin Patterns \/ Len(extra_controls(s.pattern)) = 0)
              => s.direction = "row"
        /\ (s.pattern \notin Patterns \/ Len(extra_args(s.pattern)) = 0)
              => s.droop = 0 }

\* a generator whose max_step is NaN, and the wrappers around it: each
\* wrapper's constructor copies pattern.max_step, and PatternReflected's
\* reflect_max(NaN + 1) is NaN
RECURSIVE WithNaNMaxStep(_)
WithNaNMaxStep(this) ==
    IF "wrapped" \in DOMAIN this
    THEN [this EXCEPT !.max_step = NaN,
                      !.wrapped = WithNaNMaxStep(this.wrapped)]
    ELSE [this EXCEPT !.max_step = NaN]

\* new generator_tree(rows, columns, ...extra_args) and the wrappers, with
\* the droop argument possibly undefined: Math.ceil(undefined * row_ct) is
\* NaN, and so are the offsets Math.floor(Math.random() * NaN) and max_step;
\* the classes without a constructor of their own ignore the argument
Construct_args(s, class, droop) ==
    IF droop # Undefined
    THEN { apply_wrappers(s, base) :
             base \in Construct(class, s.rows, s.columns, droop) }
    ELSE IF class \in {"RowPattern", "ColumnPattern"}
    THEN { WithNaNMaxStep(apply_wrappers(s,
             PatternGenerator(class, s.rows, s.columns) @@
             [range |-> NaN,
              offsets |-> [k \in 0 .. (IF class = "RowPattern"
                                       THEN s.columns ELSE s.rows) + 1 |-> NaN],
              max_step |-> 0])) }
    ELSE { apply_wrappers(s, base) :
             base \in Construct(class, s.rows, s.columns, 0) }

\* GeneratorView.get_generator() with this.settings = s, by outcome: the
\* exception thrown, with the settings keys its message names, or the
\* generators it can return.  An unknown pattern leaves generator_def
\* undefined and reading generator_def.generator throws a TypeError; an
\* unknown direction throws "Can't find a generator for direction = ...";
\* the extra_args loop pushes each value untested.
get_generator_outcome(s) ==
    IF s.pattern \notin Patterns
    THEN { [thrown |-> "TypeError", keys |-> {}] }
    ELSE IF Len(extra_controls(s.pattern)) > 0 /\ s.direction \notin Directions
    THEN { [thrown |-> "Error", keys |-> {"direction"}] }
    ELSE Construct_args(s, generator_tree(s.pattern, s.direction),
                        IF Len(extra_args(s.pattern)) > 0
                        THEN s.droop ELSE 0)

InitGenerate ==
    /\ player = NoPlayer
    /\ settings \in Selections
    /\ generator = NoGenerator
    /\ infect = InfectIdle
    /\ trace = TraceIdle
    /\ mask = [pc |-> "click"]

\* the click: get_generator throws, or generate_particle_wipe_mask is
\* entered with the generator it returned
GenerateClick ==
    /\ mask.pc = "click"
    /\ \E o \in get_generator_outcome(settings) :
          IF "thrown" \in DOMAIN o
          THEN /\ mask' = [pc |-> "thrown", error |-> o]
               /\ UNCHANGED generator
          ELSE /\ generator' = o
               /\ mask' = [pc |-> "call", row_ct |-> settings.rows,
                           column_ct |-> settings.columns]
    /\ UNCHANGED <<settings, infect, trace, player>>

NextGenerate == GenerateClick

SpecGenerate == InitGenerate /\ [][NextGenerate]_vars

\* ------------------------------------------- the pixel loop, by iterations
\* generate_particle_wipe_mask's loop over y and x, one iteration a step:
\* mask holds the canvas and grid sizes, the cell size, the loop's x and y,
\* and the indices (pixel_samples) of the iterations made.  The scales read
\* at those indices and the times computed from them are MaskComposite's.
InitPixels ==
    /\ player = NoPlayer
    /\ settings = NoSettings
    /\ generator = NoGenerator
    /\ infect = InfectIdle
    /\ trace = TraceIdle
    /\ \E width \in 1 .. MaxLoopCanvas, height \in 1 .. MaxLoopCanvas,
          row_ct \in 1 .. MaxLoopGrid, column_ct \in 1 .. MaxLoopGrid :
          mask = [pc |-> "loop", width |-> width, height |-> height,
                  row_ct |-> row_ct, column_ct |-> column_ct,
                  column_width |-> Ceil(width, column_ct),
                  row_height |-> Ceil(height, row_ct),
                  x |-> 0, y |-> 0, visited |-> {}]

\* one iteration of the loop over x, and the step of the loop over y
PixelIterate ==
    /\ mask.pc = "loop"
    /\ mask.y < mask.height
    /\ mask' = [mask EXCEPT
                  !.visited = @ \cup {pixel_samples(mask, mask.x, mask.y)},
                  !.x = IF mask.x + 1 < mask.width THEN mask.x + 1 ELSE 0,
                  !.y = IF mask.x + 1 < mask.width THEN mask.y
                        ELSE mask.y + 1]
    /\ UNCHANGED <<settings, generator, infect, trace, player>>

\* the loop's exit: ctx.putImageData(pixels, 0, 0)
PixelsPut ==
    /\ mask.pc = "loop"
    /\ ~(mask.y < mask.height)
    /\ mask' = [mask EXCEPT !.pc = "put"]
    /\ UNCHANGED <<settings, generator, infect, trace, player>>

NextPixels ==
    \/ PixelIterate
    \/ PixelsPut

SpecPixels == InitPixels /\ [][NextPixels]_vars

\* ------------------------------------------------------------ WipePlayer
\* player holds the WipePlayer's fields t, playing, loop and last_timestamp,
\* the number `pending` of render_loop callbacks requestAnimationFrame holds,
\* and the number `inputs` of input events handled.  Time is counted in ticks
\* of duration / TimeDen, so that dt / duration is dt ticks and t = 1 is
\* TimeDen; the duration is not changed during a run.  last_timestamp is
\* carried as `since`, the time from it to the end of the handler that ran
\* last: 0 once play() or render_loop has set it, Undefined before.  The
\* render() callbacks of schedule_render draw the canvas from t and change
\* no field carried here.

\* pause()
pause(p) == [p EXCEPT !.playing = FALSE]

\* set_time(t)
set_time(p, t) == [p EXCEPT !.t = t]

\* play()
play(p) ==
    IF p.playing
    THEN p
    ELSE CHOOSE r \in
            { IF q.t = TimeDen THEN set_time(q, 0) ELSE q :
                q \in {[p EXCEPT !.playing = TRUE, !.since = 0,
                                 !.pending = @ + 1]} } : TRUE

\* if (this.playing) window.requestAnimationFrame(this.render_loop.bind(this))
request_next(p) == IF p.playing THEN [p EXCEPT !.pending = @ + 1] ELSE p

\* render_loop ending the playback without pause()
render_loop_NoPause(p, elapsed) ==
    CHOOSE r \in
        { IF q.t >= TimeDen
          THEN (IF q.loop THEN request_next(set_time(q, 0))
                ELSE request_next(set_time(q, TimeDen)))
          ELSE request_next(q) :
            q \in {[p EXCEPT !.t = p.t + (p.since + elapsed), !.since = 0,
                             !.pending = @ - 1]} } : TRUE

\* render_loop(timestamp), one pending callback run; elapsed is the time
\* from the end of the handler that ran last to timestamp
render_loop(p, elapsed) ==
    CHOOSE r \in
        { IF q.t >= TimeDen
          THEN (IF q.loop THEN request_next(set_time(q, 0))
                ELSE pause(set_time(q, TimeDen)))
          ELSE request_next(q) :
            q \in {[p EXCEPT !.t = p.t + (p.since + elapsed), !.since = 0,
                             !.pending = @ - 1]} } : TRUE

\* one animation frame: the callbacks pending at its start run one after the
\* other with the frame's timestamp; count callbacks are still to run
RECURSIVE run_callbacks(_, _, _)
run_callbacks(p, count, elapsed) ==
    IF count = 0
    THEN p
    ELSE CHOOSE r \in { run_callbacks(q, count - 1, 0) :
                          q \in {render_loop(p, elapsed)} } : TRUE

\* new WipePlayer(...): t = 0 and then the slider's value 0, playing = false,
\* loop as the page's checkbox is, last_timestamp not yet set
InitPlayer ==
    /\ settings = NoSettings
    /\ generator = NoGenerator
    /\ infect = InfectIdle
    /\ trace = TraceIdle
    /\ mask = NoMask
    /\ player = [pc |-> "constructed", t |-> 0, playing |-> FALSE,
                 loop |-> FALSE, since |-> Undefined, pending |-> 0,
                 inputs |-> 0]

\* an input event is handled
Input(p) == [p EXCEPT !.inputs = @ + 1]

\* click on the play / pause button
PlayPauseClick ==
    /\ player.pc = "constructed"
    /\ player.inputs < MaxInputs
    /\ player' = Input(IF player.playing THEN pause(player) ELSE play(player))
    /\ UNCHANGED <<settings, generator, infect, trace, mask>>

\* input on the time slider; its value v is in [0, 1]
TimeSliderInput ==
    /\ player.pc = "constructed"
    /\ player.inputs < MaxInputs
    /\ \E v \in 0 .. TimeDen :
          player' = Input(set_time(pause(player), v))
    /\ UNCHANGED <<settings, generator, infect, trace, mask>>

\* input on the loop checkbox
LoopInput ==
    /\ player.pc = "constructed"
    /\ player.inputs < MaxInputs
    /\ player' = Input([player EXCEPT !.loop = ~player.loop])
    /\ UNCHANGED <<settings, generator, infect, trace, mask>>

\* an animation frame with render_loop callbacks to run, a positive time
\* after the handler that ran last
Frame ==
    /\ player.pc = "constructed"
    /\ player.pending > 0
    /\ \E elapsed \in 1 .. MaxElapsed :
          player' = run_callbacks(player, player.pending, elapsed)
    /\ UNCHANGED <<settings, generator, infect, trace, mask>>

NextPlayer ==
    \/ PlayPauseClick
    \/ TimeSliderInput
    \/ LoopInput
    \/ Frame

SpecPlayer == InitPlayer /\ [][NextPlayer]_vars

\* the browser keeps delivering animation frames
FairPlayer == SpecPlayer /\ WF_vars(Frame)

\* ------------------------------------------------------------ properties
\* the steps generator.cell gives to a set of cells
Steps(this, cells) == { cell(this, rc[1], rc[2]) : rc \in cells }

\* the wrapper classes around the base generator, innermost first
RECURSIVE WrapperChain(_)
WrapperChain(this) ==
    IF this.type \in WrapperClasses
    THEN Append(WrapperChain(this.wrapped), this.type)
    ELSE <<>>

\* C1: for every generator (Row and Column with any droop and any offsets,
\* the deterministic variants, Random, Infect) and every nesting of the
\* wrappers around it, cell(r, c) <= max_step for every in-grid cell.
C1_CellWithinMaxStep ==
    generator # NoGenerator =>
        \A rc \in GridCells(generator) :
            cell(generator, rc[1], rc[2]) <= generator.max_step

\* two wrappers around an InfectPattern, and an in-grid cell at max_step
C1_Witness ==
    /\ generator # NoGenerator
    /\ Depth(generator) = 2
    /\ Base(generator).type = "InfectPattern"
    /\ generator.max_step \in Steps(generator, GridCells(generator))

\* C2: PatternInterlaced with stride s maps the steps 0..max_step one-to-one
\* onto 0..max_step, every step of residue k (mod s) before every step of
\* residue k+1, steps of equal residue in their original order; for every
\* s >= 1, those dividing max_step + 1 included.
C2_InterlaceReorders ==
    (/\ generator.type = "PatternInterlaced"
     /\ Steps(generator.wrapped, GridCells(generator))
            = 0 .. generator.wrapped.max_step) =>
        LET M == generator.max_step
            s == generator.stride
            f(step) == PatternInterlaced_cell(generator, step)
        IN  /\ \A a \in 0 .. M : f(a) \in 0 .. M
            /\ \A a, b \in 0 .. M : a # b => f(a) # f(b)
            /\ \A a, b \in 0 .. M : a % s < b % s => f(a) < f(b)
            /\ \A a, b \in 0 .. M : (a % s = b % s /\ a < b) => f(a) < f(b)

\* a 2 x 3 DiagonalPattern (steps 0..3) interlaced with stride 2, which
\* divides max_step + 1 = 4: the steps 1 and 2 both become step 1 and no step
\* becomes max_step
C2_Collision ==
    /\ generator.type = "PatternInterlaced"
    /\ generator.stride = 2
    /\ generator.wrapped.type = "DiagonalPattern"
    /\ generator.wrapped.max_step = 3
    /\ Steps(generator.wrapped, GridCells(generator)) = 0 .. 3
    /\ PatternInterlaced_cell(generator, 1) = 1
    /\ PatternInterlaced_cell(generator, 2) = 1
    /\ Steps(generator, GridCells(generator)) = 0 .. 2

\* C3: after InfectPattern construction, max_step equals the largest step
\* the flood fill stored in any cell (the index of the last wavefront that
\* assigned a step).
C3_InfectMaxStepIsLastWavefront ==
    infect.pc = "done" =>
        generator.max_step = SetMax(Steps(generator, RingCells(generator)))

\* a finished 1 x 1 construction: the ring's corners hold the largest stored
\* step, 2, and max_step is 3
C3_ExtraRound ==
    /\ infect.pc = "done"
    /\ generator.row_ct = 1 /\ generator.column_ct = 1
    /\ SetMax(Steps(generator, RingCells(generator))) = 2
    /\ cell(generator, -1, -1) = 2
    /\ generator.max_step = 3

C5_MaxStepIsMaximum ==
    generator.type \in PlainClasses =>
        generator.max_step = SetMax(Steps(generator, GridCells(generator)))

\* a 2 x 3 main-diagonal shutter whose middle anti-diagonal is at max_step
C5_Witness ==
    /\ generator.type = "MainDiagonalShutterPattern"
    /\ generator.row_ct = 2 /\ generator.column_ct = 3
    /\ generator.max_step = 2
    /\ cell(generator, 1, 1) = generator.max_step

\* C6: for RowPattern (ColumnPattern) every offset is an integer in
\* [0, range), range = ceil(droop * count); max_step = count - 1 + range; and
\* max_step is reachable: for some draw of the offsets some in-grid cell takes
\* the value max_step.  (With range = 0 the interval is empty and the draw is
\* 0: that offset is read as allowed.)
C6_DroopMaxStepReachable ==
    generator.type \in {"RowPattern", "ColumnPattern"} =>
        LET row == generator.type = "RowPattern"
            count == IF row THEN generator.row_ct ELSE generator.column_ct
            slots == IF row THEN generator.column_ct + 2
                     ELSE generator.row_ct + 2
            range == generator.range
        IN  /\ \A k \in 0 .. slots - 1 :
                  /\ generator.offsets[k] >= 0
                  /\ range > 0 => generator.offsets[k] < range
            /\ generator.max_step = count - 1 + range
            /\ \E o \in [0 .. slots - 1 -> RandomInt(range)] :
                  generator.max_step \in
                      Steps([generator EXCEPT !.offsets = o],
                            GridCells(generator))

\* a 2 x 1 RowPattern with droop 1/2: range is 1, every offset is 0, the
\* largest in-grid step is 1 and max_step is 2
C6_Overshoot ==
    /\ generator.type = "RowPattern"
    /\ generator.row_ct = 2 /\ generator.column_ct = 1
    /\ generator.range = 1
    /\ \A k \in 0 .. 2 : generator.offsets[k] = 0
    /\ SetMax(Steps(generator, GridCells(generator))) = 1
    /\ generator.max_step = 2

\* C7: RandomPattern gives every cell of the grid and its border ring an
\* integer in [0, fixed_range), and max_step = fixed_range - 1, the largest
\* value a cell can receive; fixed_range is the constructor's range.
C7_RandomMaxStepIsLargest ==
    generator.type = "RandomPattern" =>
        LET fixed_range == RandomPattern_get_max_step(generator)
        IN  /\ Steps(generator, RingCells(generator))
                  \subseteq 0 .. fixed_range - 1
            /\ generator.max_step = fixed_range - 1
            /\ generator.max_step = SetMax(RandomInt(fixed_range))

\* a RandomPattern with a cell at the largest value a draw can give, 15,
\* and max_step 16
C7_RangeIsMaxStep ==
    /\ generator.type = "RandomPattern"
    /\ SetMax(Steps(generator, RingCells(generator))) = RandomMaxStep - 1
    /\ generator.max_step = RandomMaxStep

\* C8: for R = PatternReversed(G), G bare or wrapped: R.max_step = G.max_step
\* and R.cell(r, c) + G.cell(r, c) = G.max_step for every cell of the grid
\* and its border ring.
C8_ReversedSumsToMaxStep ==
    generator.type = "PatternReversed" =>
        LET G == generator.wrapped
        IN  /\ generator.max_step = G.max_step
            /\ \A rc \in RingCells(generator) :
                  cell(generator, rc[1], rc[2]) + cell(G, rc[1], rc[2])
                      = G.max_step

\* a reversed wrapped generator with a border cell below step 0
C8_Witness ==
    /\ generator.type = "PatternReversed"
    /\ generator.wrapped.type \in WrapperClasses
    /\ \E rc \in RingCells(generator) : cell(generator, rc[1], rc[2]) < 0

\* the wrappers get_generator applies for settings s, innermost first
SelectedWrappers(s) ==
    (IF s.interlace > 1 THEN <<"PatternInterlaced">> ELSE <<>>)
    \o (IF s.reflect THEN <<"PatternReflected">> ELSE <<>>)
    \o (IF s.reverse THEN <<"PatternReversed">> ELSE <<>>)
    \o (IF s.mirror THEN <<"PatternMirrored">> ELSE <<>>)
    \o (IF s.flip THEN <<"PatternFlipped">> ELSE <<>>)

\* C9: PatternReflected(PatternReversed(G)) has the cell steps of
\* PatternReflected(G) (the reversal is lost); PatternReversed(
\* PatternReflected(G)) is the reversed symmetric pattern; and get_generator
\* nests the selected wrappers in the order Interlace, Reflect, Reverse,
\* Mirror, Flip, innermost first, so Reflect is inside Reverse.
C9_ReflectBeforeReverse ==
    /\ (generator.type = "PatternReflected"
        /\ generator.wrapped.type = "PatternReversed") =>
            LET G == generator.wrapped.wrapped
            IN  \A rc \in RingCells(generator) :
                    cell(generator, rc[1], rc[2])
                        = cell(PatternReflected(G), rc[1], rc[2])
    /\ (generator.type = "PatternReversed"
        /\ generator.wrapped.type = "PatternReflected") =>
            LET G == generator.wrapped.wrapped
            IN  \A rc \in RingCells(generator) :
                    cell(generator, rc[1], rc[2])
                        = reflect_max(G.max_step + 1)
                          - reflect(cell(G, rc[1], rc[2]), G.max_step + 1)
    /\ (settings # NoSettings /\ generator # NoGenerator) =>
            WrapperChain(generator) = SelectedWrappers(settings)

\* a reflected reversed droopy RowPattern: the reversal changed a cell's
\* step, and the reflection on top gives that cell the step it would have
\* had without the reversal
C9_Witness ==
    /\ generator.type = "PatternReflected"
    /\ generator.wrapped.type = "PatternReversed"
    /\ generator.wrapped.wrapped.type = "RowPattern"
    /\ \E rc \in GridCells(generator) :
          /\ cell(generator.wrapped, rc[1], rc[2])
                # cell(generator.wrapped.wrapped, rc[1], rc[2])
          /\ cell(generator, rc[1], rc[2])
                = cell(PatternReflected(generator.wrapped.wrapped),
                       rc[1], rc[2])

\* the counts reflect is called with for this generator
ReflectCounts(this) ==
    {this.row_ct, this.column_ct, this.row_ct + this.column_ct}
    \cup (IF this.type = "PatternReflected"
          THEN {this.wrapped.max_step + 1} ELSE {})

\* C10: reflect(n, count) = reflect(count - 1 - n, count)
\* = min(n, count - 1 - n) for count >= 1 and 0 <= n < count; so
\* PatternReflected(G) gives the same step to two cells whose wrapped steps
\* are s and G.max_step - s.
C10_ReflectSymmetric ==
    generator # NoGenerator =>
        /\ \A count \in ReflectCounts(generator) : \A n \in 0 .. count - 1 :
              /\ reflect(n, count) = reflect(count - 1 - n, count)
              /\ reflect(n, count) = Min2(n, count - 1 - n)
        /\ generator.type = "PatternReflected" =>
              LET pairs == { <<cell(generator.wrapped, rc[1], rc[2]),
                                cell(generator, rc[1], rc[2])>> :
                              rc \in RingCells(generator) }
              IN  \A p, q \in pairs :
                      p[1] + q[1] = generator.wrapped.max_step => p[2] = q[2]

\* a reflected generator with two in-grid cells at different wrapped steps
\* s and max_step - s, and so at the same step
C10_Witness ==
    /\ generator.type = "PatternReflected"
    /\ \E p, q \in GridCells(generator) :
          /\ cell(generator.wrapped, p[1], p[2])
                < cell(generator.wrapped, q[1], q[2])
          /\ cell(generator.wrapped, p[1], p[2])
                + cell(generator.wrapped, q[1], q[2])
                = generator.wrapped.max_step
          /\ cell(generator, p[1], p[2]) = cell(generator, q[1], q[2])

\* the shutter class the help text pairs with a wipe class
ShutterOf(class) ==
    CASE class = "RowPattern" -> "RowShutterPattern"
      [] class = "ColumnPattern" -> "ColumnShutterPattern"
      [] class = "DiagonalPattern" -> "MainDiagonalShutterPattern"

\* the generator is a wipe generator constructed with droop 0
IsPlainWipe(this) ==
    /\ this.type \in {"RowPattern", "ColumnPattern", "DiagonalPattern"}
    /\ this \in Construct(this.type, this.row_ct, this.column_ct, 0)

\* C11: shutter is wipe plus reflect: for each direction and every grid,
\* PatternReflected around the wipe generator (RowPattern / ColumnPattern
\* with droop 0, DiagonalPattern) has the max_step and the in-grid cell
\* steps of the shutter generator of that direction.
C11_ShutterIsReflectedWipe ==
    (generator.type = "PatternReflected" /\ IsPlainWipe(generator.wrapped)) =>
        LET shutter == PlainPattern(ShutterOf(generator.wrapped.type),
                                    generator.row_ct, generator.column_ct)
        IN  /\ generator.max_step = shutter.max_step
            /\ \A rc \in GridCells(generator) :
                  cell(generator, rc[1], rc[2]) = cell(shutter, rc[1], rc[2])

\* a reflected 2 x 3 DiagonalPattern: max_step 1 and the far corner at step
\* 0, where MainDiagonalShutterPattern has max_step 2 and the far corner at
\* step 1
C11_DiagonalDiffers ==
    /\ generator.type = "PatternReflected"
    /\ generator.wrapped.type = "DiagonalPattern"
    /\ generator.row_ct = 2 /\ generator.column_ct = 3
    /\ generator.max_step = 1
    /\ cell(generator, 1, 2) = 0
    /\ PlainPattern("MainDiagonalShutterPattern", 2, 3).max_step = 2
    /\ cell(PlainPattern("MainDiagonalShutterPattern", 2, 3), 1, 2) = 1

\* C12: PatternInterlaced(G, 1).cell(r, c) = G.cell(r, c) for every cell of
\* the grid and its border ring, for every integer-step generator G.
C12_InterlaceOneIsIdentity ==
    (generator.type = "PatternInterlaced" /\ generator.stride = 1) =>
        \A rc \in RingCells(generator) :
            cell(generator, rc[1], rc[2]) = cell(generator.wrapped, rc[1], rc[2])

\* a stride-1 interlace around a wrapped generator with a border cell below
\* step 0 and an in-grid cell at max_step
C12_Witness ==
    /\ generator.type = "PatternInterlaced" /\ generator.stride = 1
    /\ generator.wrapped.type \in WrapperClasses
    /\ \E rc \in RingCells(generator) : cell(generator, rc[1], rc[2]) < 0
    /\ generator.max_step > 0
    /\ generator.max_step \in Steps(generator, GridCells(generator))

\* C13: with droop 0, RowPattern.cell(r, c) = r for every cell, the border
\* ring included, and max_step = rows - 1; ColumnPattern.cell(r, c) = c and
\* max_step = cols - 1.
C13_PlainWipeCountsLines ==
    (generator.type \in {"RowPattern", "ColumnPattern"}
     /\ IsPlainWipe(generator)) =>
        LET row == generator.type = "RowPattern"
        IN  /\ \A rc \in RingCells(generator) :
                  cell(generator, rc[1], rc[2]) = IF row THEN rc[1] ELSE rc[2]
            /\ generator.max_step = IF row THEN generator.row_ct - 1
                                    ELSE generator.column_ct - 1

\* a 2 x 3 ColumnPattern constructed with droop 0
C13_Witness ==
    /\ generator.type = "ColumnPattern"
    /\ IsPlainWipe(generator)
    /\ generator.row_ct = 2 /\ generator.column_ct = 3
    /\ generator.max_step = 2
    /\ cell(generator, -1, 3) = 3

\* the parameters t at which the segment p0 + t * d is within [lo, lo + 1]
\* (closed) or within (lo, lo + 1) (open): <<from, to>>, empty when from
\* exceeds to
Slab(lo, p0, d, closed) ==
    IF d = R(0)
    THEN IF (closed /\ RLe(R(lo), p0) /\ RLe(p0, R(lo + 1)))
            \/ (RLt(R(lo), p0) /\ RLt(p0, R(lo + 1)))
         THEN <<R(0), R(1)>> ELSE <<R(1), R(0)>>
    ELSE LET t1 == RDiv(RSub(R(lo), p0), d)
             t2 == RDiv(RSub(R(lo + 1), p0), d)
         IN  <<RMin(t1, t2), RMax(t1, t2)>>

\* the part of the segment args, as parameters within [0, 1], in the cell
SegmentIn(args, c, closed) ==
    LET sx == Slab(c[1], args[1], RSub(args[3], args[1]), closed)
        sy == Slab(c[2], args[2], RSub(args[4], args[2]), closed)
    IN  <<RMax(R(0), RMax(sx[1], sy[1])), RMin(R(1), RMin(sx[2], sy[2]))>>

\* the segment has a point in the closed cell / passes through its interior
Touches(args, c) ==
    LET part == SegmentIn(args, c, TRUE) IN RLe(part[1], part[2])
Enters(args, c) ==
    LET part == SegmentIn(args, c, FALSE)
    IN  IF args[1] = args[3] /\ args[2] = args[4]
        THEN RLe(part[1], part[2])
        ELSE RLt(part[1], part[2])

\* C20: for any two endpoints trace_line terminates (it never yields more
\* cells than the grid has), and once it has returned the cells it has yielded
\* are exactly the cells the segment passes through: it starts with the start
\* point's cell and ends with the cell the end point is inside of (an end
\* point on a grid line has no one cell), yields no cell twice,
\* yields only cells the segment has a point in, yields them in the order the
\* segment reaches them, and omits no cell whose interior the segment crosses;
\* a zero-length segment yields the start cell only.
C20_TraceLineYieldsSegmentCells ==
    /\ trace.f.pc \in {"loop", "done"} =>
          Len(trace.f.out) <= (TraceMax + 1) * (TraceMax + 1)
    /\ trace.f.pc = "done" =>
          LET out == trace.f.out
              args == trace.args
              first == <<RFloor(args[1]), RFloor(args[2])>>
              last == <<RFloor(args[3]), RFloor(args[4])>>
          IN  /\ Len(out) >= 1
              /\ out[1] = first
              /\ (args[3][2] # 1 /\ args[4][2] # 1) => out[Len(out)] = last
              /\ \A i, j \in 1 .. Len(out) : i # j => out[i] # out[j]
              /\ \A i \in 1 .. Len(out) : Touches(args, out[i])
              /\ \A i \in 1 .. Len(out) - 1 :
                    RLe(SegmentIn(args, out[i], TRUE)[1],
                        SegmentIn(args, out[i + 1], TRUE)[1])
              /\ \A c \in (-1 .. TraceMax + 1) \X (-1 .. TraceMax + 1) :
                    Enters(args, c) => \E i \in 1 .. Len(out) : out[i] = c
              /\ (args[1] = args[3] /\ args[2] = args[4]) => out = <<first>>

\* trace_line has returned from a segment whose endpoints are both inside a
\* cell, and has yielded a cell the segment has no point in
C20_Overshoot ==
    /\ trace.f.pc = "done"
    /\ \A i \in 1 .. 4 : trace.args[i][2] # 1
    /\ \E i \in 1 .. Len(trace.f.out) : ~Touches(trace.args, trace.f.out[i])

\* C15: for a value v = n / d in [0, 1) the encoder writes
\* channel0 = floor(256 v), channel1 = floor(256 frac(256 v)),
\* channel2 = floor(256 frac(256 frac(256 v))) and channel3 = 255, each in
\* 0 .. 255, and with N = 65536 c0 + 256 c1 + c2 the value lies in
\* [N / 256^3, (N + 1) / 256^3).
C15_EncoderDigits ==
    (mask.pc = "encoded" /\ mask.value[1] < mask.value[2]) =>
        LET n == mask.value[1]
            d == mask.value[2]
            f1 == (256 * n) % d
            f2 == (256 * f1) % d
            c0 == (256 * n) \div d
            c1 == (256 * f1) \div d
            c2 == (256 * f2) \div d
            N == 65536 * c0 + 256 * c1 + c2
        IN  /\ mask.pixel = <<c0, c1, c2, 255>>
            /\ \A i \in 1 .. 4 : mask.pixel[i] \in 0 .. 255
            /\ N * d <= 16777216 * n
            /\ 16777216 * n < (N + 1) * d

\* 5/7 has been encoded, with three different digits
C15_Witness ==
    /\ mask.pc = "encoded"
    /\ mask.value = <<5, 7>>
    /\ mask.pixel = <<182, 219, 109, 255>>

\* the particle of a generation run has no pixel at or above the threshold /
\* has fully opaque pixels only
NoOpaquePixel ==
    \A n \in DOMAIN mask.particle.data :
        mask.particle.data[n] < AlphaThreshold
FullyOpaque ==
    \A n \in DOMAIN mask.particle.data : mask.particle.data[n] = AlphaOpaque
Pixels == DOMAIN mask.value

\* C14: the value time / total_time of every output pixel of every generation
\* run is a number in [0, 1]: never NaN, never negative, never above 1.
C14_ValueInUnitRange ==
    mask.pc = "done" =>
        \A xy \in Pixels :
            /\ mask.value[xy] # NaN
            /\ RLe(R(0), mask.value[xy])
            /\ RLe(mask.value[xy], R(1))

\* a run with a fully opaque particle has given some pixel the value NaN
C14_NaNReachesEncoder ==
    /\ mask.pc = "done"
    /\ FullyOpaque
    /\ \E xy \in Pixels : mask.value[xy] = NaN

\* the generators over the grid of the run that the run is compared with
OtherGenerators ==
    LET base == UNION { Construct(class, mask.row_ct, mask.column_ct, 0) :
                          class \in MaskClasses \cup PlainClasses }
    IN  base \cup { PatternReversed(g) : g \in base }

\* C16: with delay = 0, total_time is 1 and the mask does not depend on the
\* generator: every generator over the same grid gives every pixel the same
\* time, value and bytes (NaN, stored as 0, where max_scale is 0); on a
\* 2 x 2 canvas cut into 2 x 2 cells, with RowPattern at droop 0 and a particle
\* of one fully opaque pixel, all four pixels have the same value and bytes.
C16_DelayZeroIgnoresSteps ==
    (mask.pc = "done" /\ mask.delay = R(0)) =>
        /\ mask.total_time = R(1)
        /\ \A g \in OtherGenerators : \A xy \in Pixels :
              LET time == pixel_time(mask, g, mask, xy[1], xy[2])
                  value == RDiv(time, RAdd(RMul(R(g.max_step), mask.delay),
                                           R(1)))
              IN  /\ time = mask.time[xy]
                  /\ value = mask.value[xy]
                  /\ encode(value) = mask.pixels[xy]
        /\ (/\ mask.width = 2 /\ mask.height = 2
            /\ mask.row_ct = 2 /\ mask.column_ct = 2
            /\ generator.type = "RowPattern"
            /\ mask.particle.width = 1 /\ mask.particle.height = 1
            /\ FullyOpaque) =>
              \A xy, zw \in Pixels :
                  /\ mask.value[xy] = mask.value[zw]
                  /\ mask.pixels[xy] = mask.pixels[zw]

\* a run with delay 0 over a grid on which the generators differ (the
\* column wipe against the row wipe of the run), with a stamp whose max_scale
\* is a positive number, so that a step difference would show
C16_Witness ==
    /\ mask.pc = "done"
    /\ mask.delay = R(0)
    /\ generator.type = "RowPattern"
    /\ mask.row_ct = 2 /\ mask.column_ct = 1
    /\ mask.width = 2 /\ mask.height = 2
    /\ IsFinite(mask.max_scale) /\ RLt(R(0), mask.max_scale)
    /\ \E g \in OtherGenerators :
          /\ g.type = "ColumnPattern"
          /\ cell(g, 1, 0) # cell(generator, 1, 0)

\* C17 (as stated): for a 1 x 1 grid with delay = 0 and a fully opaque
\* particle of the cell's size, total_time is 1 and every output pixel has the
\* reveal value 0.
C17_UniformlyZero ==
    (/\ mask.pc = "done"
     /\ mask.row_ct = 1 /\ mask.column_ct = 1
     /\ mask.delay = R(0)
     /\ FullyOpaque
     /\ mask.particle.width = mask.width
     /\ mask.particle.height = mask.height) =>
        /\ mask.total_time = R(1)
        /\ \A xy \in Pixels : mask.value[xy] = R(0)

\* C17 (amended): for a 1 x 1 grid with delay = 0, total_time is 1 and every
\* output pixel's reveal value is the stamp's entry for that pixel in the
\* middle tile divided by max_scale, a gradient that is 0 only where that
\* entry is 0 (NaN where that is 0 / 0), and NaN for every pixel when
\* max_scale is not finite.
C17_ValueIsOwnProfileEntry ==
    (/\ mask.pc = "done"
     /\ mask.row_ct = 1 /\ mask.column_ct = 1
     /\ mask.delay = R(0)) =>
        /\ mask.total_time = R(1)
        /\ \A xy \in Pixels :
              mask.value[xy] =
                  IF IsFinite(mask.max_scale)
                  THEN RDiv(mask.box_scales[xy[2] + mask.row_height]
                                           [xy[1] + mask.column_width],
                            mask.max_scale)
                  ELSE NaN

\* a 1 x 1 grid, delay 0, a fully opaque particle of the cell's size, and a
\* pixel whose value is 1
C17_Witness ==
    /\ mask.pc = "done"
    /\ mask.row_ct = 1 /\ mask.column_ct = 1
    /\ mask.delay = R(0)
    /\ FullyOpaque
    /\ mask.particle.width = mask.width
    /\ mask.particle.height = mask.height
    /\ \E xy \in Pixels : mask.value[xy] = R(1)

\* C18: every entry of box_scales is a finite number >= 0, and the entry of
\* the stamp's exact centre pixel (there is one when column_width and
\* row_height are odd) is 0.
C18_ProfileFiniteNonNegative ==
    mask.pc \in {"stamped", "done"} =>
        /\ \A py \in DOMAIN mask.box_scales :
              \A px \in DOMAIN mask.box_scales[py] :
                  /\ IsFinite(mask.box_scales[py][px])
                  /\ RLe(R(0), mask.box_scales[py][px])
        /\ (mask.column_width % 2 = 1 /\ mask.row_height % 2 = 1) =>
              mask.box_scales[(mask.row_height * 3 - 1) \div 2]
                             [(mask.column_width * 3 - 1) \div 2] = R(0)

\* the stamp has an entry Infinity
C18_InfiniteEntry ==
    /\ mask.pc = "stamped"
    /\ \E py \in DOMAIN mask.box_scales :
          \E px \in DOMAIN mask.box_scales[py] :
              mask.box_scales[py][px] = Infinity

\* C19: with a particle that has no pixel of opacity >= 50%, no hit is found
\* and every entry of box_scales is 0, and the run ends with a uniform mask of
\* value 0 in which no time or value is NaN.
C19_NoOpaquePixelDegenerate ==
    /\ (mask.pc \in {"stamped", "done"} /\ NoOpaquePixel) =>
          \A py \in DOMAIN mask.box_scales :
              \A px \in DOMAIN mask.box_scales[py] :
                  mask.box_scales[py][px] = R(0)
    /\ (mask.pc = "done" /\ NoOpaquePixel) =>
          \A xy \in Pixels :
              /\ mask.time[xy] # NaN
              /\ mask.value[xy] = R(0)
              /\ mask.pixels[xy] = <<0, 0, 0, 255>>

\* a run with a particle without an opaque pixel has formed 0 / 0
C19_NaNTime ==
    /\ mask.pc = "done"
    /\ NoOpaquePixel
    /\ mask.max_scale = R(0)
    /\ \E xy \in Pixels : mask.time[xy] = NaN

\* ---------------------------------------------------------------- C21
\* the settings keys that make the selection invalid
OffendingKeys(s) ==
    (IF s.pattern \notin Patterns THEN {"pattern"} ELSE {}) \cup
    (IF s.pattern \in Patterns /\ Len(extra_controls(s.pattern)) > 0
        /\ s.direction \notin Directions THEN {"direction"} ELSE {}) \cup
    (IF s.pattern \in Patterns /\ Len(extra_args(s.pattern)) > 0
        /\ s.droop = Undefined THEN {"droop"} ELSE {})

C21_UnknownPatternTypeError ==
    /\ mask.pc = "thrown"
    /\ settings.pattern \notin Patterns
    /\ mask.error.thrown = "TypeError" /\ mask.error.keys = {}

\* ---------------------------------------------------------------- C22
\* the stamp pixels <<px, py>> whose scale is positive
ScaledStampPixels ==
    { pp \in DOMAIN mask.entry : RLt(R(0), mask.entry[pp].scale) }

\* C22: once the stamp is made, every stamp pixel with scale > 0 was
\* back-projected to the particle's centre plus (dx, dy) / scale:
\* ix = particle_width / 2 + dx / scale, iy = particle_height / 2 + dy / scale.
C22_EntryPointFromCentre ==
    mask.pc \in {"stamped", "done"} =>
        \A pp \in ScaledStampPixels :
            \E e \in {mask.entry[pp]} :
                /\ e.ix = RAdd(Rat(mask.particle.width, 2),
                               RDiv(e.dx, e.scale))
                /\ e.iy = RAdd(Rat(mask.particle.height, 2),
                               RDiv(e.dy, e.scale))

\* a particle one pixel wide and two high: a stamp pixel's iy is taken from
\* the centre's x coordinate, half a pixel off
C22_EntryFromWrongCentre ==
    /\ mask.pc = "stamped"
    /\ mask.particle.width = 1 /\ mask.particle.height = 2
    /\ \E pp \in ScaledStampPixels :
          \E e \in {mask.entry[pp]} :
             /\ e.iy = RAdd(Rat(mask.particle.width, 2), RDiv(e.dy, e.scale))
             /\ e.iy # RAdd(Rat(mask.particle.height, 2), RDiv(e.dy, e.scale))

\* ---------------------------------------------------------------- C23
\* the cell <<ax, ay>> is a cell of the particle bitmap
InBitmap(particle, c) ==
    /\ 0 <= c[1] /\ c[1] < particle.width
    /\ 0 <= c[2] /\ c[2] < particle.height

\* the cells whose opacity the march of stamp pixel pp reads (those the test
\* ax >= particle_width || ay >= particle_height lets through, up to the
\* hit), and the cell counted as the hit (<<>> when there is none)
MarchOf(pp) ==
    CHOOSE r \in
        { CHOOSE q \in
            { [read |-> { cells[j] :
                            j \in { i \in 1 .. (IF k = 0 THEN Len(cells) ELSE k) :
                                      ~(cells[i][1] >= mask.particle.width
                                        \/ cells[i][2] >= mask.particle.height) } },
               hit |-> IF k = 0 THEN <<>> ELSE cells[k]] :
              k \in {first_hit(mask.particle, cells)} } : TRUE :
          cells \in {trace_line(mask.entry[pp].ix, mask.entry[pp].iy,
                                Rat(mask.particle.width, 2),
                                Rat(mask.particle.height, 2))} } : TRUE

\* C23: once the stamp is made, for every stamp pixel with scale > 0 the
\* march read opacity only at cells inside the particle bitmap, and the cell
\* counted as the hit, if any, is inside the bitmap.
C23_OnlyBitmapCellsRead ==
    mask.pc = "stamped" =>
        \A pp \in ScaledStampPixels :
            \E m \in {MarchOf(pp)} :
                /\ \A c \in m.read : InBitmap(mask.particle, c)
                /\ m.hit # <<>> => InBitmap(mask.particle, m.hit)

\* a particle with no opaque pixel, and a march that counts a cell left of
\* or above the bitmap as its hit
C23_HitOutsideBitmap ==
    /\ mask.pc = "stamped"
    /\ \A n \in DOMAIN mask.particle.data :
          mask.particle.data[n] < AlphaThreshold
    /\ \E pp \in ScaledStampPixels :
          \E m \in {MarchOf(pp)} :
             /\ m.hit # <<>>
             /\ ~InBitmap(mask.particle, m.hit)
             /\ RLt(R(0), mask.box_scales[pp[2]][pp[1]])

\* ---------------------------------------------------------------- C24
\* C24: in the pixel loop, every pixel's owning cell lies inside the grid,
\* every cell passed to generator.cell lies inside the grid (the border ring
\* is never queried), and every index read from box_scales lies inside the
\* 3 * row_height by 3 * column_width table.
C24_IndicesInRange ==
    mask.pc \in {"loop", "put"} =>
        \A ps \in mask.visited :
            /\ ps.row \in 0 .. mask.row_ct - 1
            /\ ps.col \in 0 .. mask.column_ct - 1
            /\ \A s \in ps.samples :
                  /\ s.srow \in 0 .. mask.row_ct - 1
                  /\ s.scol \in 0 .. mask.column_ct - 1
                  /\ s.sy \in 0 .. 3 * mask.row_height - 1
                  /\ s.sx \in 0 .. 3 * mask.column_width - 1

\* a 4 x 3 canvas with a 2 x 3 grid (cells 2 x 2, sizes that do not divide
\* evenly), all pixels done: a corner pixel sampled four tiles, a pixel of
\* the middle column six
C24_Witness ==
    /\ mask.pc = "put"
    /\ mask.width = 4 /\ mask.height = 3
    /\ mask.row_ct = 2 /\ mask.column_ct = 3
    /\ Cardinality(mask.visited) = 12
    /\ \E ps \in mask.visited :
          ps.row = 0 /\ ps.col = 0 /\ Cardinality(ps.samples) = 4
    /\ \E ps \in mask.visited :
          ps.row = 1 /\ ps.col = 1 /\ Cardinality(ps.samples) = 6

\* ---------------------------------------------------------------- C26
\* the cells that own a pixel of the iterations made
Owners == { <<ps.row, ps.col>> : ps \in mask.visited }

\* C26: when the pixel loop has ended on a canvas with width >= column_ct and
\* height >= row_ct, every grid cell (r, c) has been the owning cell of at
\* least one pixel.
C26_EveryCellOwnsAPixel ==
    (mask.pc = "put" /\ mask.width >= mask.column_ct
                     /\ mask.height >= mask.row_ct) =>
        Owners = (0 .. mask.row_ct - 1) \X (0 .. mask.column_ct - 1)

\* a canvas 4 pixels wide cut into 3 columns: the cells are 2 pixels wide,
\* the 4 pixels of a row fall in columns 0 and 1, and column 2 owns none
C26_LastColumnOwnsNothing ==
    /\ mask.pc = "put"
    /\ mask.width = 4 /\ mask.column_ct = 3 /\ mask.column_width = 2
    /\ Cardinality(mask.visited) = mask.width * mask.height
    /\ \A ps \in mask.visited : ps.col # 2

\* ---------------------------------------------------------------- C25
\* the 24-bit code of a pixel: channel0 * 65536 + channel1 * 256 + channel2
Code(bytes) == 65536 * bytes[1] + 256 * bytes[2] + bytes[3]

\* C25: the pixel written for a value v2 of [0, 1] has a 24-bit code, and a
\* channel0, at least those of the pixel the encoder writes for any value
\* v1 <= v2 of [0, 1].
C25_CodeOrderPreserved ==
    mask.pc = "encoded" =>
        \A v1 \in { v \in EncodeInputs : RLe(v, mask.value) } :
            \E p1 \in {encode(v1)} :
                /\ Code(p1) <= Code(mask.pixel)
                /\ p1[1] <= mask.pixel[1]

\* v = 1 has been encoded: 256 is clamped to 255 in channel0 and 256 % 1 = 0
\* leaves channels 1 and 2 at 0, a code below that of 511/512
C25_OneBelowSmallerValue ==
    /\ mask.pc = "encoded"
    /\ mask.value = R(1)
    /\ mask.pixel = <<255, 0, 0, 255>>
    /\ encode(Rat(511, 512)) = <<255, 128, 0, 255>>
    /\ Code(mask.pixel) < Code(encode(Rat(511, 512)))

\* ---------------------------------------------------------------- C27
\* the seed cells of the finished construction: n = r * column_ct + c
SeedCells ==
    { <<Floor(n, infect.column_ct), n % infect.column_ct>> : n \in infect.seen }

\* the Manhattan distance between two cells
Manhattan(a, b) == Abs(a[1] - b[1]) + Abs(a[2] - b[2])

\* C27: after InfectPattern construction, for every cell of the grid and of
\* its border ring cell(r, c) is the least Manhattan distance from (r, c) to
\* a seed cell; the seeds have step 0, and two 4-adjacent cells differ in step
\* by at most 1.
C27_InfectStepIsSeedDistance ==
    infect.pc = "done" =>
        /\ \A rc \in RingCells(generator) :
              \E d \in {cell(generator, rc[1], rc[2])} :
                 /\ \E s \in SeedCells : Manhattan(rc, s) = d
                 /\ \A s \in SeedCells : Manhattan(rc, s) >= d
        /\ \A s \in SeedCells : cell(generator, s[1], s[2]) = 0
        /\ \A a, b \in RingCells(generator) :
              Manhattan(a, b) = 1 =>
                 Abs(cell(generator, a[1], a[2])
                     - cell(generator, b[1], b[2])) <= 1

\* a finished construction with two seeds three columns apart in one row:
\* the two cells between them are at distance 1 from the nearer seed, and
\* the ring's corners hold their distance to the nearer seed
C27_Witness ==
    /\ infect.pc = "done"
    /\ infect.row_ct = 3 /\ infect.column_ct = 11
    /\ SeedCells = {<<1, 4>>, <<1, 7>>}
    /\ cell(generator, 1, 5) = 1 /\ cell(generator, 1, 6) = 1
    /\ cell(generator, -1, -1) = 7
    /\ cell(generator, 3, 11) = 6

\* ---------------------------------------------------------------- C28
\* C28: in every state of the WipePlayer, whatever the order of clicks on
\* play / pause, time-slider inputs and animation frames, at most one
\* render_loop callback is pending.
C28_OneLoopPending ==
    player.pc = "constructed" => player.pending <= 1

\* play, pause and play again before a frame: two render_loop callbacks are
\* pending while playing, and a frame later both have requested the next
C28_TwoLoops ==
    /\ player.pc = "constructed"
    /\ player.playing
    /\ player.pending = 2
    /\ player.inputs = 3
    /\ player.t > 0

\* ---------------------------------------------------------------- C29
\* C29: while playing is false (pause() has run and play() has not been
\* called since), no animation frame changes t; the time a slider input set
\* stays as it is.
C29_PausedFrameKeepsTime ==
    [][(Frame /\ ~player.playing) => player'.t = player.t]_vars

\* play, then a slider input (pause(), set_time(v)) before the next frame:
\* the render_loop callback is still pending with playing false
C29_PausedWithPendingLoop ==
    /\ player.pc = "constructed"
    /\ ~player.playing
    /\ player.pending = 1
    /\ player.inputs = 2
    /\ player.t = 2

\* ---------------------------------------------------------------- C30
\* C30: with loop off, from a state where the player is playing and no
\* further input is made (the frames keep arriving), playback eventually
\* rests at t = 1 with playing false and no render_loop callback pending;
\* with loop on, a frame of a playing player leaves it playing with one more
\* frame requested, and t back at 0 if it reached 1; a click on play at t = 1
\* starts playing from t = 0.
C30_PlaybackEndsOrLoops ==
    /\ (player.pc = "constructed" /\ player.playing /\ ~player.loop
            /\ player.inputs = MaxInputs)
          ~> (player.t = TimeDen /\ ~player.playing /\ player.pending = 0)
    /\ [][(Frame /\ player.playing /\ player.loop) =>
             /\ player'.playing /\ player'.pending >= 1
             /\ \/ player'.t = 0
                \/ (player.t < player'.t /\ player'.t < TimeDen)]_vars
    /\ [][(PlayPauseClick /\ ~player.playing /\ player.t = TimeDen) =>
             (player'.playing /\ player'.t = 0)]_vars

\* one click on play and nothing else: the frames have run t up to 1 and
\* the playback has stopped there
C30_Witness ==
    /\ player.pc = "constructed"
    /\ player.inputs = 1
    /\ player.since = 0
    /\ ~player.loop
    /\ player.t = TimeDen /\ ~player.playing /\ player.pending = 0

====
